---- MODULE Spec2Model ----
(***************************************************************************)
(* Verification model of perpx-load-test.                                  *)
(*                                                                         *)
(*  - the per-worker transaction generator (PerpxBankClient): lazy         *)
(*    one-time account resolution under accountQueryMtx and atomic         *)
(*    reservation of the local sequence counter in GenerateTx;             *)
(*  - the funding planner (seed.seedAccounts): pre-flight funds check,     *)
(*    classification of worker accounts, sequential funding batches with   *)
(*    confirmation polling, post-verification, and the resolution of       *)
(*    the seed identity from a private key or a mnemonic;                  *)
(*  - the client factory (PerpxBankClientFactory) and the bank-send        *)
(*    strategy: validation at construction, worker ids, key derivation.    *)
(*                                                                         *)
(*  - the derivation of worker and bench accounts from their index;        *)
(*  - the REST base URL the generator and the seeder derive from the       *)
(*    endpoint each of them is given;                                      *)
(*  - ExecuteStandalone with the terminal display: start and stop of       *)
(*    the render goroutine, the error and stats paths, and the render      *)
(*    loop reading the per-transactor counters under statsMtx;             *)
(*  - an interrupt signal delivered to a seeding run;                      *)
(*  - the benchmark run of run_benchmark.sh: the accounts it seeds and     *)
(*    the transactors the load test then makes;                            *)
(*  - the answers of the node to the status queries of the poll loop;      *)
(*  - ValidateConfig of the factory.                                       *)
(*                                                                         *)
(* Each part has its own specification (SpecGen, SpecSeed, SpecSeedKey,    *)
(* SpecFactory, SpecDerive, SpecUrl, SpecTui, SpecRates, SpecSeedStop,     *)
(* SpecBench, SpecFactoryEnv, SpecSeedBatch, SpecSeedPoll, SpecSnapshot,   *)
(* SpecValidate) which keeps the variables of the other parts at their     *)
(* initial value; SpecGenLive and SpecTuiLive add the scheduling of the    *)
(* goroutines to SpecGen and SpecTui.                                      *)
(***************************************************************************)
EXTENDS Integers, Sequences, FiniteSets, TLC

\* ------------------------------------------------------------------ bounds
\* number of generators (workers) in the load-test process
NumGenWorkers == 2
\* number of GenerateTx calls (goroutines) issued on the first generator
MaxCalls == 3
\* on-chain sequence of a worker account that has already sent transactions
MaxLedgerSeq == 2

\* largest --workers value of a seeding run
MaxWorkers == 3
\* largest --batch-size value of a seeding run
MaxBatchSize == 2
\* largest per-account fund amount (--fund-amount) of a seeding run
MaxFundAmount == 1
\* on-chain sequence of a seed account that has already sent transactions
MaxSeedSeq == 3
\* concurrent NewClient calls on one factory
NumFactoryCalls == 3
\* workers of the runs that differ in their identity
MaxKeyWorkers == 1
\* transactors of the load test the display watches
NumTransactors == 3
\* transactions a transactor reports while it is watched
MaxTx == 1
\* largest number of seconds between two ticks of the display
MaxDt == 2
\* largest --time and largest --count of a checked configuration
MaxTime == 1
MaxCount == 1
\* largest number of connections per endpoint of a benchmark run
MaxConnections == 2
\* largest number of endpoints of a benchmark run
MaxEndpoints == 2
\* largest worker index whose derived address is compared with the others:
\* beyond the wrap of byte(id) at 256 and with one to three digits
MaxIndex == 259

GenWorkers == 1..NumGenWorkers
Calls == 1..MaxCalls
\* the calls issued on generator w: the first generator is called
\* concurrently, every other generator once
CallsOf(w) == IF w = 1 THEN Calls ELSE {1}
\* the on-chain sequence of the account of generator w: the first
\* generator's account has sent transactions before, the others are fresh
LedgerSeq(w) == IF w = 1 THEN MaxLedgerSeq ELSE 0
\* whether the account of generator w is on the ledger: the first
\* generator's account may be unseeded
LedgerExists(w) == IF w = 1 THEN BOOLEAN ELSE {TRUE}
\* the on-chain account number of generator w's account (unique per account)
LedgerNumber(w) == w
\* what the REST account endpoint can hold for the generators' accounts
LedgerStates ==
    {l \in [GenWorkers -> [exists : BOOLEAN,
                           number : GenWorkers,
                           sequence : 0..MaxLedgerSeq]] :
        \A w \in GenWorkers : /\ l[w].exists \in LedgerExists(w)
                              /\ l[w].number = LedgerNumber(w)
                              /\ l[w].sequence = LedgerSeq(w)}

\* value of the local variable seq of a call that has not reserved yet
NoSeq == -1
\* holder of accountQueryMtx when the mutex is free
Free == 0

VARIABLES
    \* ---- PerpxBankClient fields, one generator per worker
    accountNum,       \* [GenWorkers -> Nat]      c.accountNum
    sequence,         \* [GenWorkers -> Nat]      c.sequence (atomic counter)
    accountQueried,   \* [GenWorkers -> BOOLEAN]  c.accountQueried
    accountQueryMtx,  \* [GenWorkers -> Free or the call holding the mutex]
    gclient,          \* [GenWorkers -> [config, strategy, privKey, addr,
                      \*  restURL]]  the fields GenerateTx only reads
    \* ---- one record per GenerateTx call
    gpc,              \* position of the call in GenerateTx
    gseq,             \* local variable seq of the call (NoSeq before line 194)
    gret,             \* what the call returned ("none" while running)
    gtx,              \* signer data of the transaction the call returned
    \* ---- the ledger as seen through the REST account endpoint
    ledgerAcc,        \* [GenWorkers -> [exists, number, sequence]]
    queries           \* [GenWorkers -> Nat] account GETs issued so far

genVars == <<accountNum, sequence, accountQueried, accountQueryMtx, gclient,
             gpc, gseq, gret, gtx, ledgerAcc, queries>>

VARIABLES
    \* ---- seed.Config and the ledger the seeding run talks to
    cfg,              \* [Workers, BatchSize, FundAmount, SeedPrivateKey,
                      \*  SeedKey]
    chainSeedBalance, \* the seed account's balance in cfg.Denom
    chainSeedAcc,     \* the seed account's [number, sequence] on the ledger
    chainBal,         \* [0..Workers-1 -> Nat] worker balances in cfg.Denom
    restLatency,      \* how long a status request can take on this network
    \* ---- locals of seedAccounts
    spc,              \* position of the run in seedAccounts
    seedBalance,      \* seedBalance.AmountOf(cfg.Denom), NoBalance before
    seedAccountNum,   \* accountNum
    seedSequence,     \* sequence
    needsFunding,     \* needsFunding, as worker indices
    idx,              \* index of the classification / verification loop
    i,                \* index of the batch loop
    currentSeq,       \* currentSeq
    elapsed,          \* time.Since(startTime) in the poll loop, in ms
    allFunded,        \* allFunded
    result,           \* what seedAccounts returned ("none" while running)
    seedAddr,         \* seedAddr, NoAddr before the identity is resolved
    \* ---- observation of the run
    batches,          \* the funding batches built so far, in order
    accQueries,       \* seed account-info GETs issued so far
    failedQ,          \* workers whose classification balance query failed
    run               \* "first", or "second" for the run that follows a
                      \* successful one on the same ledger

seedVars == <<cfg, restLatency, chainSeedBalance, chainSeedAcc, chainBal,
              spc, seedBalance, seedAccountNum, seedSequence, needsFunding,
              idx, i, currentSeq, elapsed, allFunded, result, seedAddr,
              batches, accQueries, failedQ, run>>

VARIABLES
    \* ---- the process environment and PerpxBankClientFactory
    env,              \* LOADTEST_CHAIN_ID, _DENOM, _SINK_ADDRESS ("" unset)
    workerCounter,    \* f.workerCounter
    \* ---- one record per NewClient call
    fpc,              \* position of the call in NewClient
    fret,             \* the error the call returned, "ok", or "none"
    fstrategy,        \* local variable strategy
    fid,              \* local variable workerID (NoSeq before line 56)
    fclient,          \* the client the call returned
    fmsg,             \* what CreateMsg returned to the client's GenerateTx
    \* ---- a direct call of NewBankSendStrategy
    sargs,            \* its arguments
    sres              \* what it returned

facVars == <<env, workerCounter, fpc, fret, fstrategy, fid, fclient, fmsg,
             sargs, sres>>

VARIABLES
    \* ---- the derivation of two worker accounts
    dpair,            \* the two worker indices
    caddr,            \* the addresses the client derives for them
    baddr             \* the addresses the seeder derives for them

drvVars == <<dpair, caddr, baddr>>

VARIABLES
    \* ---- the REST base URL of one node, as client and seeder derive it
    endpoint,         \* cfg.Endpoints[0] of the load test
    rpc,              \* cfg.RPC of the seeder
    clientRest,       \* restURL of NewPerpxBankClient, NoUrl before
    seedRest          \* restURL of seedAccounts, NoUrl before

urlVars == <<endpoint, rpc, clientRest, seedRest>>

VARIABLES
    \* ---- ExecuteStandalone
    tcfg,             \* [UI, NoTrapInterrupts, StatsOutputFile (set or not)]
    mpc,              \* position of ExecuteStandalone
    stopRet,          \* where ExecuteStandalone goes on after stopTUI()
    ret,              \* what ExecuteStandalone returns ("none" before)
    tuiOn,            \* stopTUI != nil
    trap,             \* the interrupt trap: "none", "installed", "fired",
                      \* "cancelled"
    printed,          \* the error messages written to stderr in TUI mode
    \* ---- the transactor group
    tgState,          \* "idle", "running", "finished", "failed", "cancelled"
    txCounts,         \* tg.txCounts: sent transactions per transactor id
    statsMtx,         \* tg.statsMtx: [readers, writers] holding it
    \* ---- startStandaloneTUI and its render goroutine
    tpc,              \* position of the goroutine ("none": not started)
    stopc,            \* whether stopc is closed
    dt,               \* dt of the tick being rendered
    byEP,             \* byEP of the tick being rendered: endpoint -> tx
    lastByEP,         \* lastByEP
    \* ---- the terminal
    cursorHidden,     \* whether the cursor is hidden
    screen,           \* what was written last: "shell", "cleared", "table",
                      \* "message"
    \* ---- observation of the display
    shown,            \* the per-endpoint rates of the table written last
    prevSnap,         \* the snapshot of the tick before this one
    totalTxs,         \* the total of the table written last
    readCounts        \* tg.txCounts as read by the last snapshot

tuiVars == <<tcfg, mpc, stopRet, ret, tuiOn, trap, printed, tgState, txCounts,
             statsMtx, tpc, stopc, dt, byEP, lastByEP, cursorHidden, screen,
             shown, prevSnap, totalTxs, readCounts>>

VARIABLES
    \* ---- an interrupt of the seed process
    stopSig           \* [raised, batches, inFlight]: whether SIGINT or
                      \* SIGTERM was delivered, the batches built by then
                      \* and whether a broadcast was in flight

stopVars == <<stopSig>>

VARIABLES
    \* ---- a run of run_benchmark.sh: the seeder, then the load test
    bconn,            \* WORKERS, passed as -c: connections per endpoint
    bendp,            \* ENDPOINT_COUNT, the endpoints of --endpoints
    bpc,              \* position of the run
    bseeded,          \* the addresses the seeder was asked to fund
    bmade,            \* the transactors AddAll has added
    bclients          \* the clients of these transactors

benchVars == <<bconn, bendp, bpc, bseeded, bmade, bclients>>

VARIABLES
    \* ---- the status queries of the confirmation poll
    statusAnswers,    \* what the node can answer to a status query
    txStatusResp      \* the answer the poll loop handled last

pollVars == <<statusAnswers, txStatusResp>>

VARIABLES
    \* ---- the configuration check of the factory
    vcfg,             \* the loadtest.Config given to ValidateConfig:
                      \* [Connections, Time, Count, Endpoints (their number)]
    vret              \* what ValidateConfig returned ("none" before)

validVars == <<vcfg, vret>>

\* the variables of the benchmark run, the status queries and the
\* configuration check
extVars == <<benchVars, pollVars, validVars>>

\* the variables outside the generator, the funding run and the factory
auxVars == <<drvVars, urlVars, tuiVars, stopVars, extVars>>

vars == <<genVars, seedVars, facVars, auxVars>>

\* ------------------------------------ keys, addresses and defaults
\* sha256.Sum256 as a collision-free digest of its input
Sha256(x) == <<"sha256", x>>
\* the values of a byte
ByteValues == 256
\* byte(n), the conversion of an int to uint8
ByteOf(n) == n % ByteValues
\* sdk.AccAddress(privKey.PubKey().Address()) of the key made of the bytes k
AddressOf(k) == <<"address", k>>

\* the characters of the decimal digits
DigitChars == <<"0", "1", "2", "3", "4", "5", "6", "7", "8", "9">>
\* the verb %d of fmt.Sprintf on a non-negative integer: its decimal
\* digits, most significant first, without leading zeros
RECURSIVE Decimal(_)
Decimal(n) ==
    IF n < 10 THEN <<DigitChars[n + 1]>>
    ELSE Decimal(n \div 10) \o <<DigitChars[(n % 10) + 1]>>

\* mutation: the client numbers its seed phrases from one
ClientSeedStr_OneBased(id) ==
    <<"bench worker ">> \o Decimal(id + 1)
        \o <<" seed phrase for load testing account">>

\* part_003 line 62: fmt.Sprintf of the seed phrase of worker id, as the
\* sequence of its fixed parts and the characters of the number
ClientSeedStr(id) ==
    <<"bench worker ">> \o Decimal(id)
        \o <<" seed phrase for load testing account">>

\* mutation: the key bytes are the digest of a fixed phrase and byte(id)
ClientAddr_ByteOnly(id) ==
    AddressOf(Sha256(<<Sha256(<<"bench worker seed phrase">>), ByteOf(id)>>))

\* part_003 lines 63-68: the address a client with worker id signs from
ClientAddr(id) ==
    AddressOf(Sha256(<<Sha256(ClientSeedStr(id)), ByteOf(id)>>))

\* seed.go line 331: fmt.Sprintf of the seed phrase of bench account j
BenchSeedStr(j) ==
    <<"bench worker ">> \o Decimal(j)
        \o <<" seed phrase for load testing account">>
\* seed.go lines 332-336: the address the seeder funds for worker index j
BenchAddr(j) ==
    AddressOf(Sha256(<<Sha256(BenchSeedStr(j)), ByteOf(j)>>))

\* an address string: its text and whether it is bech32 of an account
EmptyAddr == [text |-> "", bech32 |-> FALSE]
\* factory.go lines 44-46: the defaults of the environment
DefaultChainID == "localperpxprotocol"
DefaultDenom == "aperpx"
DefaultSinkAddr == [text |-> "perpx1kyfmupa8", bech32 |-> TRUE]

\* ------------------------------------------------------- the generator
NoTx == [placeholderSeq |-> NoSeq, signerSeq |-> NoSeq, sigSeq |-> NoSeq,
         accountNumber |-> NoSeq, chainID |-> "", address |-> AddressOf("none")]

\* the REST base URL a client caches for the endpoint of a local node
LocalRestURL == "http://localhost:31317"
\* the endpoint a load test of a local node is given
LocalEndpoint == "ws://localhost:36657/websocket"

\* part_003 lines 112-122: the struct NewPerpxBankClient returns for the
\* worker id w - 1, with the strategy of an environment that sets nothing
NewPerpxBankClient(w) ==
    [config |-> [Endpoints |-> <<LocalEndpoint>>],
     strategy |-> [chainID |-> DefaultChainID, denom |-> DefaultDenom,
                   sinkAddr |-> DefaultSinkAddr],
     privKey |-> Sha256(<<Sha256(ClientSeedStr(w - 1)), ByteOf(w - 1)>>),
     addr |-> ClientAddr(w - 1),
     restURL |-> LocalRestURL]

\* NewPerpxBankClient: accountNum 0, sequence 0, accountQueried false
GenInit ==
    /\ accountNum = [w \in GenWorkers |-> 0]
    /\ sequence = [w \in GenWorkers |-> 0]
    /\ accountQueried = [w \in GenWorkers |-> FALSE]
    /\ accountQueryMtx = [w \in GenWorkers |-> Free]
    /\ gclient = [w \in GenWorkers |-> NewPerpxBankClient(w)]
    /\ gpc = [w \in GenWorkers |-> [c \in Calls |-> "idle"]]
    /\ gseq = [w \in GenWorkers |-> [c \in Calls |-> NoSeq]]
    /\ gret = [w \in GenWorkers |-> [c \in Calls |-> "none"]]
    /\ gtx = [w \in GenWorkers |-> [c \in Calls |-> NoTx]]
    /\ ledgerAcc \in LedgerStates
    /\ queries = [w \in GenWorkers |-> 0]

\* mutation: Lock() never blocks
MtxAvailable_NoLock(w) == TRUE

\* Lock() succeeds only while no call holds the mutex
MtxAvailable(w) == accountQueryMtx[w] = Free

\* mutation: the accountQueried fast path is missing, a call on a resolved
\* generator queries the ledger again
EnsureAlreadyQueried_Requery(w, c) ==
    /\ gpc[w][c] = "idle"
    /\ MtxAvailable(w)
    /\ accountQueried[w]
    /\ accountQueryMtx' = [accountQueryMtx EXCEPT ![w] = c]
    /\ queries' = [queries EXCEPT ![w] = @ + 1]
    /\ gpc' = [gpc EXCEPT ![w][c] = "query"]
    /\ UNCHANGED <<seedVars, facVars, auxVars, gclient, accountNum, sequence,
                   accountQueried, gseq, gret, gtx, ledgerAcc>>

\* GenerateTx is called and ensureAccountQueried finds the account
\* resolved: Lock, see accountQueried, deferred Unlock, return nil
EnsureAlreadyQueried(w, c) ==
    /\ gpc[w][c] = "idle"
    /\ MtxAvailable(w)
    /\ accountQueried[w]
    /\ gpc' = [gpc EXCEPT ![w][c] = "reserve"]
    /\ UNCHANGED <<seedVars, facVars, auxVars, gclient, accountNum, sequence,
                   accountQueried, accountQueryMtx, gseq, gret, gtx, ledgerAcc,
                   queries>>

\* GenerateTx is called and ensureAccountQueried finds the account
\* unresolved: Lock, then httpClient.Get(accountURL) is issued while the
\* mutex is held
QuerySend(w, c) ==
    /\ gpc[w][c] = "idle"
    /\ MtxAvailable(w)
    /\ ~accountQueried[w]
    /\ accountQueryMtx' = [accountQueryMtx EXCEPT ![w] = c]
    /\ queries' = [queries EXCEPT ![w] = @ + 1]
    /\ gpc' = [gpc EXCEPT ![w][c] = "query"]
    /\ UNCHANGED <<seedVars, facVars, auxVars, gclient, accountNum, sequence,
                   accountQueried, gseq, gret, gtx, ledgerAcc>>

\* the ways the account query can fail: transport error, non-200 status,
\* undecodable body, unparsable account_number, unparsable sequence
QueryErrors == {"errTransport", "errHTTP", "errDecode", "errParseNum",
                "errParseSeq"}
\* the error GenerateTx returns for it: transport errors and non-200
\* answers carry "account may not exist - run 'seed' command first"
ErrorOf(e) == IF e \in {"errTransport", "errHTTP"} THEN "errAccountNotFound"
              ELSE "errAccountDecode"

\* mutation: accountQueried is set before the error checks
FailedResolutionQueried_Set(w) == TRUE

\* accountQueried after a failed resolution: not touched
FailedResolutionQueried(w) == accountQueried[w]

\* mutation: the mutex is unlocked on the success path only, an error
\* return leaves it locked
QueryFail_KeepLock(w, c) ==
    /\ gpc[w][c] = "query"
    /\ \E e \in QueryErrors :
         /\ (e \in {"errDecode", "errParseNum", "errParseSeq"}
               => ledgerAcc[w].exists)
         /\ gret' = [gret EXCEPT ![w][c] = ErrorOf(e)]
    /\ gpc' = [gpc EXCEPT ![w][c] = "done"]
    /\ UNCHANGED <<seedVars, facVars, auxVars, gclient, accountNum, sequence,
                   accountQueried, accountQueryMtx, gseq, gtx, ledgerAcc,
                   queries>>

\* the query fails: every error path returns before lines 179-181, the
\* deferred Unlock releases the mutex, GenerateTx returns the error
QueryFail(w, c) ==
    /\ gpc[w][c] = "query"
    /\ \E e \in QueryErrors :
         \* an account that is absent answers non-200; transport errors can
         \* always happen; a body that does not decode/parse needs a 200
         /\ (e \in {"errDecode", "errParseNum", "errParseSeq"}
               => ledgerAcc[w].exists)
         /\ gret' = [gret EXCEPT ![w][c] = ErrorOf(e)]
    /\ accountQueried' =
         [accountQueried EXCEPT ![w] = FailedResolutionQueried(w)]
    /\ accountQueryMtx' = [accountQueryMtx EXCEPT ![w] = Free]
    /\ gpc' = [gpc EXCEPT ![w][c] = "done"]
    /\ UNCHANGED <<seedVars, facVars, auxVars, gclient, accountNum, sequence,
                   gseq, gtx, ledgerAcc, queries>>

\* mutation: the resolved account is kept in package-level variables that
\* every generator reads
Receiver_Shared(w) == GenWorkers

\* the generators whose fields a method called on worker w's client
\* writes: c is a pointer to the one struct NewPerpxBankClient allocated
\* for that client, and the fields are held in it by value
Receiver(w) == {w}

\* the query succeeds (HTTP 200, both numbers parse): lines 179-181 store
\* the ledger's account number and sequence and set accountQueried
QueryOk(w, c) ==
    /\ gpc[w][c] = "query"
    /\ ledgerAcc[w].exists
    /\ accountNum' = [x \in GenWorkers |->
                        IF x \in Receiver(w) THEN ledgerAcc[w].number
                                              ELSE accountNum[x]]
    /\ sequence' = [x \in GenWorkers |->
                      IF x \in Receiver(w) THEN ledgerAcc[w].sequence
                                            ELSE sequence[x]]
    /\ accountQueried' = [x \in GenWorkers |->
                            x \in Receiver(w) \/ accountQueried[x]]
    /\ accountQueryMtx' = [accountQueryMtx EXCEPT ![w] = Free]
    /\ gpc' = [gpc EXCEPT ![w][c] = "reserve"]
    /\ UNCHANGED <<seedVars, facVars, auxVars, gclient, gseq, gret, gtx,
                   ledgerAcc, queries>>

\* mutation: the increment is lost
AddUint64_Lost(s) == s

\* atomic.AddUint64(&c.sequence, 1): the new value of the counter
AddUint64(s) == s + 1

\* seq := atomic.AddUint64(&c.sequence, 1) - 1, one atomic step
Reserve(w, c) ==
    /\ gpc[w][c] = "reserve"
    /\ sequence' = [x \in GenWorkers |->
                      IF x \in Receiver(w) THEN AddUint64(sequence[w])
                                            ELSE sequence[x]]
    /\ gseq' = [gseq EXCEPT ![w][c] = AddUint64(sequence[w]) - 1]
    /\ gpc' = [gpc EXCEPT ![w][c] = "build"]
    /\ UNCHANGED <<seedVars, facVars, auxVars, gclient, accountNum,
                   accountQueried, accountQueryMtx, gret, gtx, ledgerAcc,
                   queries>>

\* the errors GenerateTx can return after the reservation
BuildErrors == {"errCreateMsg", "errSetMsgs", "errSetEmptySig", "errSign",
                "errSetSig", "errEncode"}

\* mutation: a failing call gives its reservation back
SequenceAfterFailure_RollBack(s) == s - 1

\* the counter after a call failed behind the reservation: no roll-back
SequenceAfterFailure(s) == s

\* message creation, signing or encoding fails after the reservation
BuildFail(w, c) ==
    /\ gpc[w][c] = "build"
    /\ \E e \in BuildErrors : gret' = [gret EXCEPT ![w][c] = "errBuild"]
    /\ sequence' = [sequence EXCEPT ![w] = SequenceAfterFailure(@)]
    /\ gpc' = [gpc EXCEPT ![w][c] = "done"]
    /\ UNCHANGED <<seedVars, facVars, auxVars, gclient, accountNum,
                   accountQueried, accountQueryMtx, gseq, gtx, ledgerAcc,
                   queries>>

\* mutation: the signer data reads the counter instead of the reserved
\* value
SignerData_Counter(w, seq) ==
    [Address |-> gclient[w].addr,
     ChainID |-> gclient[w].strategy.chainID,
     AccountNumber |-> accountNum[w],
     Sequence |-> sequence[w]]

\* lines 232-238: signerData of the second signing round
SignerData(w, seq) ==
    [Address |-> gclient[w].addr,
     ChainID |-> gclient[w].strategy.chainID,
     AccountNumber |-> accountNum[w],
     Sequence |-> seq]

\* mutation: GenerateTx hands the encoded transaction to the node, which
\* includes it
LedgerAfterGenerate_Broadcast(l, w) ==
    [l EXCEPT ![w].sequence = @ + 1]

\* the ledger after GenerateTx returned txBytes (lines 257-263): the
\* bytes go to the caller, nothing is sent to the node
LedgerAfterGenerate(l, w) == l

\* the transaction is built, signed in two rounds and encoded: the
\* placeholder signature of lines 220-227 and the signature of lines
\* 240-248 both carry seq
BuildOk(w, c) ==
    /\ gpc[w][c] = "build"
    /\ LET sd == SignerData(w, gseq[w][c])
       IN gtx' = [gtx EXCEPT ![w][c] =
                    [placeholderSeq |-> gseq[w][c],
                     signerSeq |-> sd.Sequence,
                     sigSeq |-> gseq[w][c],
                     accountNumber |-> sd.AccountNumber,
                     chainID |-> sd.ChainID,
                     address |-> sd.Address]]
    /\ ledgerAcc' = LedgerAfterGenerate(ledgerAcc, w)
    /\ gret' = [gret EXCEPT ![w][c] = "ok"]
    /\ gpc' = [gpc EXCEPT ![w][c] = "done"]
    /\ UNCHANGED <<seedVars, facVars, auxVars, gclient, accountNum, sequence,
                   accountQueried, accountQueryMtx, gseq, queries>>

\* one step of call c on generator w
CallStep(w, c) ==
    \/ EnsureAlreadyQueried(w, c)
    \/ QuerySend(w, c)
    \/ QueryFail(w, c)
    \/ QueryOk(w, c)
    \/ Reserve(w, c)
    \/ BuildFail(w, c)
    \/ BuildOk(w, c)

GenNext ==
    \E w \in GenWorkers : \E c \in CallsOf(w) :
        \/ EnsureAlreadyQueried(w, c)
        \/ QuerySend(w, c)
        \/ QueryFail(w, c)
        \/ QueryOk(w, c)
        \/ Reserve(w, c)
        \/ BuildFail(w, c)
        \/ BuildOk(w, c)

\* ---------------------------------------------------- the funding planner
\* seedBalance before the balance query has answered
NoBalance == -1
\* fee reserve per worker, line 177 ("~10k per tx")
FeeReservePerWorker == 10000
\* gas limit per message, line 414
GasPerMsg == 100000
\* minimum gas price, line 415: 25000000000 aperpx per unit of gas; fees
\* are kept in units of 10^9 aperpx, so the price is 25
MinGasPrice == 25
\* maxWait of the confirmation poll in ms, line 506
MaxWaitMs == 30000
\* time.Sleep between two status polls in ms, line 550
PollSleepMs == 500
\* Timeout of restClient in ms, line 245
RestTimeoutMs == 10000
\* how long one status request takes: answered at once or at its timeout
RequestDurations == {0, RestTimeoutMs}
\* a node that answers every status request only at the client's timeout
SlowNode == {RestTimeoutMs}

\* worker indices of a run
WorkerIdx(c) == 0..(c.Workers - 1)

\* mutation: the fee reserve is left out of the required total
TotalRequired_NoReserve(c) == c.FundAmount * c.Workers

\* totalRequired, lines 176-178
TotalRequired(c) ==
    c.FundAmount * c.Workers + c.Workers * FeeReservePerWorker

\* ---- the seed identity, lines 185-228
\* A key or mnemonic given on the command line or in the environment is a
\* string; what the code asks of it is kept: text is its content without
\* a leading "0x", has0x whether it starts with "0x", hex whether text is
\* made of hex digit pairs, nbytes the bytes text decodes to; for a seed
\* key, spaces whether it contains " " and derivable whether it is a valid
\* BIP-39 mnemonic.
EmptyString == [text |-> "", has0x |-> FALSE, hex |-> TRUE, nbytes |-> 0]
\* len(keyBytes) of a secp256k1 private key, line 195
PrivKeyLen == 32
\* values of --seed-private-key / LOADTEST_SEED_PRIVATE_KEY
PrivateKeyInputs ==
    { EmptyString,
      [text |-> "a1", has0x |-> FALSE, hex |-> TRUE, nbytes |-> PrivKeyLen],
      [text |-> "a1", has0x |-> TRUE, hex |-> TRUE, nbytes |-> PrivKeyLen],
      [text |-> "zz", has0x |-> FALSE, hex |-> FALSE, nbytes |-> PrivKeyLen],
      [text |-> "a1a1", has0x |-> TRUE, hex |-> TRUE,
       nbytes |-> PrivKeyLen + 1],
      [text |-> "", has0x |-> TRUE, hex |-> TRUE, nbytes |-> 0] }
\* the default of --seed-key / LOADTEST_SEED_KEY, line 78
Alice == [text |-> "alice", spaces |-> FALSE, derivable |-> FALSE]
\* the development mnemonic substituted for "alice", line 210
AliceMnemonic ==
    [text |-> "merge panther lobster", spaces |-> TRUE, derivable |-> TRUE]
\* values of --seed-key / LOADTEST_SEED_KEY
SeedKeyInputs ==
    { Alice,
      [text |-> "abandon ability able", spaces |-> TRUE, derivable |-> TRUE],
      [text |-> "not a mnemonic", spaces |-> TRUE, derivable |-> FALSE],
      [text |-> "bob", spaces |-> FALSE, derivable |-> FALSE] }
\* the address before the identity is resolved
NoAddr == <<"none", "">>

\* strings.TrimPrefix(cfg.SeedPrivateKey, "0x"), line 191
TrimPrefix0x(k) == [k EXCEPT !.has0x = FALSE]
\* mutation: the decoder takes any string
HexDecode_Lenient(k) == [ok |-> TRUE, bytes |-> k.text, len |-> k.nbytes]

\* hex.DecodeString, line 191: "x" is no hex digit
HexDecode(k) ==
    IF k.has0x \/ ~k.hex
      THEN [ok |-> FALSE, bytes |-> "", len |-> 0]
      ELSE [ok |-> TRUE, bytes |-> k.text, len |-> k.nbytes]

\* the errors of the identity resolution
IdentityErrors == {"errKeyDecode", "errKeyLength", "errDerive",
                   "errNotMnemonic"}

\* mutation: a private key that cannot be used falls back to the seed key
SeedIdentity_Fallback(c) ==
    LET d == HexDecode(TrimPrefix0x(c.SeedPrivateKey))
        sk == IF c.SeedKey = Alice THEN AliceMnemonic ELSE c.SeedKey
    IN IF c.SeedPrivateKey # EmptyString /\ d.ok /\ d.len = PrivKeyLen
         THEN [ok |-> TRUE, addr |-> <<"secp256k1", d.bytes>>, err |-> "none"]
         ELSE IF sk.spaces
           THEN IF sk.derivable
             THEN [ok |-> TRUE, addr |-> <<"hd118", sk.text>>, err |-> "none"]
             ELSE [ok |-> FALSE, addr |-> NoAddr, err |-> "errDerive"]
           ELSE [ok |-> FALSE, addr |-> NoAddr, err |-> "errNotMnemonic"]

\* lines 185-228: the seed key and address of a configuration, or the
\* error the run returns
SeedIdentity(c) ==
    IF c.SeedPrivateKey # EmptyString
      THEN LET d == HexDecode(TrimPrefix0x(c.SeedPrivateKey))
           IN IF ~d.ok
                THEN [ok |-> FALSE, addr |-> NoAddr, err |-> "errKeyDecode"]
                ELSE IF d.len # PrivKeyLen
                  THEN [ok |-> FALSE, addr |-> NoAddr,
                        err |-> "errKeyLength"]
                  ELSE [ok |-> TRUE, addr |-> <<"secp256k1", d.bytes>>,
                        err |-> "none"]
      ELSE LET sk == IF c.SeedKey = Alice THEN AliceMnemonic ELSE c.SeedKey
           IN IF sk.spaces
                THEN IF sk.derivable
                  THEN [ok |-> TRUE, addr |-> <<"hd118", sk.text>>,
                        err |-> "none"]
                  ELSE [ok |-> FALSE, addr |-> NoAddr, err |-> "errDerive"]
                ELSE [ok |-> FALSE, addr |-> NoAddr,
                      err |-> "errNotMnemonic"]

\* the runs that differ in size: the default identity (no private key,
\* seed key "alice") and one seed key that is no mnemonic
SizeConfigs ==
    [Workers : 1..MaxWorkers, BatchSize : 1..MaxBatchSize,
     FundAmount : 1..MaxFundAmount, SeedPrivateKey : {EmptyString},
     SeedKey : {Alice}]
    \cup
    [Workers : {1}, BatchSize : {1}, FundAmount : {1},
     SeedPrivateKey : {EmptyString},
     SeedKey : {[text |-> "bob", spaces |-> FALSE, derivable |-> FALSE]}]

\* the values parseArgs leaves in cfg.BatchSize (lines 124-128): the
\* integer that was passed, negative ones included, and 0 for an argument
\* strconv.Atoi cannot parse
BatchSizes == {-1, 0} \cup (1..MaxBatchSize)
\* the runs that differ in their batch size
BatchConfigs ==
    [Workers : {MaxWorkers}, BatchSize : BatchSizes,
     FundAmount : {MaxFundAmount}, SeedPrivateKey : {EmptyString},
     SeedKey : {Alice}]

\* the smallest run: one worker, one batch
PollConfigs ==
    [Workers : {1}, BatchSize : {1}, FundAmount : {1},
     SeedPrivateKey : {EmptyString}, SeedKey : {Alice}]

\* the runs that differ in the identity they are given
KeyConfigs ==
    [Workers : 1..MaxKeyWorkers, BatchSize : {1}, FundAmount : {1},
     SeedPrivateKey : PrivateKeyInputs, SeedKey : SeedKeyInputs]

\* the ledgers a run with one of the configurations C starts from, on a
\* network whose status requests take one of the durations L
SeedInitOver(C, L) ==
    /\ cfg \in C
    /\ restLatency = L
    /\ run = "first"
    /\ seedAddr = NoAddr
    /\ failedQ = {}
    /\ chainSeedBalance \in {TotalRequired(cfg) - 1, TotalRequired(cfg)}
    /\ chainSeedAcc \in [number : {0}, sequence : {0, MaxSeedSeq}]
    /\ chainBal \in [WorkerIdx(cfg) -> {cfg.FundAmount - 1, cfg.FundAmount}]
    /\ spc = "identity"
    /\ seedBalance = NoBalance
    /\ seedAccountNum = 0
    /\ seedSequence = 0
    /\ needsFunding = <<>>
    /\ idx = 0
    /\ i = 0
    /\ currentSeq = 0
    /\ elapsed = 0
    /\ allFunded = TRUE
    /\ result = "none"
    /\ batches = <<>>
    /\ accQueries = 0

SeedInit == SeedInitOver(SizeConfigs, SlowNode)

\* seedAccounts returns err: Run prints it and exits 1; nil: exit 0
ExitCode == IF result = "ok" THEN 0 ELSE 1

\* return from seedAccounts
Return(r) == spc' = "done" /\ result' = r

\* lines 185-228: the identity is resolved from the configuration, or
\* the run returns its error
ResolveIdentity ==
    /\ spc = "identity"
    /\ LET r == SeedIdentity(cfg)
       IN IF r.ok
            THEN seedAddr' = r.addr /\ spc' = "balance" /\ UNCHANGED result
            ELSE Return(r.err) /\ UNCHANGED seedAddr
    /\ UNCHANGED <<genVars, facVars, auxVars, cfg, restLatency, failedQ, run,
                   chainSeedBalance, chainSeedAcc, chainBal, seedBalance,
                   seedAccountNum, seedSequence, needsFunding, idx, i,
                   currentSeq, elapsed, allFunded, batches, accQueries>>

\* lines 247-278: the seed balance query fails (transport, non-200,
\* undecodable body, invalid amount)
SeedBalanceFail ==
    /\ spc = "balance"
    /\ Return("errBalanceQuery")
    /\ UNCHANGED <<genVars, facVars, auxVars, cfg, restLatency, seedAddr,
                   failedQ, run, chainSeedBalance, chainSeedAcc, chainBal,
                   seedBalance, seedAccountNum, seedSequence, needsFunding,
                   idx, i, currentSeq, elapsed, allFunded, batches,
                   accQueries>>

\* lines 247-284: the seed balance query answers; short of totalRequired
\* the run returns "insufficient funds"
SeedBalanceOk ==
    /\ spc = "balance"
    /\ seedBalance' = chainSeedBalance
    /\ IF seedBalance' < TotalRequired(cfg)
         THEN Return("errInsufficientFunds")
         ELSE spc' = "account" /\ UNCHANGED result
    /\ UNCHANGED <<genVars, facVars, auxVars, cfg, restLatency, seedAddr,
                   failedQ, run, chainSeedBalance, chainSeedAcc, chainBal,
                   seedAccountNum, seedSequence, needsFunding, idx, i,
                   currentSeq, elapsed, allFunded, batches, accQueries>>

\* lines 286-319: the seed account-info query fails
SeedAccountFail ==
    /\ spc = "account"
    /\ accQueries' = accQueries + 1
    /\ Return("errAccountQuery")
    /\ UNCHANGED <<genVars, facVars, auxVars, cfg, restLatency, seedAddr,
                   failedQ, run, chainSeedBalance, chainSeedAcc, chainBal,
                   seedBalance, seedAccountNum, seedSequence, needsFunding,
                   idx, i, currentSeq, elapsed, allFunded, batches>>

\* lines 286-338: the seed account-info query answers; bench keys are
\* derived and the classification loop starts
SeedAccountOk ==
    /\ spc = "account"
    /\ accQueries' = accQueries + 1
    /\ seedAccountNum' = chainSeedAcc.number
    /\ seedSequence' = chainSeedAcc.sequence
    /\ idx' = 0
    /\ spc' = "classify"
    /\ UNCHANGED <<genVars, facVars, auxVars, cfg, restLatency, seedAddr,
                   failedQ, run, chainSeedBalance, chainSeedAcc, chainBal,
                   seedBalance, needsFunding, i, currentSeq, elapsed,
                   allFunded, result, batches>>

\* mutation: a balance equal to the fund amount counts as too low
BelowThreshold_AtMost(bal, c) == bal <= c.FundAmount

\* line 374: balance.AmountOf(cfg.Denom).LT(fundCoin.Amount)
BelowThreshold(bal, c) == bal < c.FundAmount

\* mutation: every worker is funded, whatever its balance
NeedsFunding_Always(queryOk, bal, c) == TRUE

\* lines 345-377: the account is appended to needsFunding when the balance
\* query did not answer 200 with a decodable body, or when the balance is
\* below the fund amount
NeedsFunding(queryOk, bal, c) == ~queryOk \/ BelowThreshold(bal, c)

\* lines 342-387: one iteration of the classification loop for worker idx;
\* queryOk is whether the balance query answered 200 with a decodable
\* body.  After the last worker: nothing to fund returns nil, otherwise
\* currentSeq := sequence and the batch loop starts.
ClassifyAccount ==
    /\ spc = "classify"
    /\ idx < cfg.Workers
    /\ \E queryOk \in BOOLEAN :
         /\ needsFunding' =
              IF NeedsFunding(queryOk, chainBal[idx], cfg)
                THEN Append(needsFunding, idx) ELSE needsFunding
         /\ failedQ' = IF queryOk THEN failedQ ELSE failedQ \cup {idx}
    /\ idx' = idx + 1
    /\ IF idx' < cfg.Workers
         THEN UNCHANGED <<spc, result, currentSeq, i>>
         ELSE IF Len(needsFunding') = 0
           THEN Return("ok") /\ UNCHANGED <<currentSeq, i>>
           ELSE /\ spc' = "loop"
                /\ currentSeq' = seedSequence
                /\ i' = 0
                /\ UNCHANGED result
    /\ UNCHANGED <<genVars, facVars, auxVars, cfg, restLatency, seedAddr, run,
                   chainSeedBalance, chainSeedAcc, chainBal, seedBalance,
                   seedAccountNum, seedSequence, elapsed, allFunded, batches,
                   accQueries>>

\* lines 389-392: end of the batch that starts at index j
BatchEnd(j, b, n) == IF j + b > n THEN n ELSE j + b

\* mutation: the gas limit does not grow with the batch
GasLimit_Flat(n) == GasPerMsg

\* line 414: gasLimit := 100000 * uint64(len(batch))
GasLimit(n) == GasPerMsg * n

\* aperpx in one unit of the fees: 25000000000 of line 415 is 25 of them
Giga == 1000000000

\* line 416: feeAmount := minGasPrice.Mul(gasLimit)
FeeAmount(gas) == MinGasPrice * gas

\* lines 396-403: one MsgSend per account of the batch
BatchMsgs(batch, c) ==
    [k \in 1..Len(batch) |->
        [from |-> "seed", to |-> batch[k], amount |-> c.FundAmount]]

\* the batch the run is working on
Cur == Len(batches)
\* last state a batch went through
StatusOf(b) == b.hist[Len(b.hist)]
\* the current batch moves to state st
Advance(st) ==
    batches' = [batches EXCEPT ![Cur].hist = Append(@, st)]

\* needsFunding[j:end] of line 393 is a slice: j <= end
ValidSlice(j, end) == j <= end

\* the runtime panics of the batch loop
Panics == {"panicSliceBounds", "panicDivideByZero"}

\* line 393 with a negative batch size: end is below i and
\* needsFunding[i:end] panics with slice bounds out of range
BuildBatchPanic ==
    /\ spc = "loop"
    /\ i < Len(needsFunding)
    /\ ~ValidSlice(i, BatchEnd(i, cfg.BatchSize, Len(needsFunding)))
    /\ Return("panicSliceBounds")
    /\ UNCHANGED <<genVars, facVars, auxVars, cfg, restLatency, seedAddr,
                   failedQ, run, chainSeedBalance, chainSeedAcc, chainBal,
                   seedBalance, seedAccountNum, seedSequence, needsFunding,
                   idx, i, currentSeq, elapsed, allFunded, batches,
                   accQueries>>

\* lines 388-419: a batch is cut from needsFunding and the transaction is
\* built with its messages, fee and gas limit
BuildBatch ==
    /\ spc = "loop"
    /\ i < Len(needsFunding)
    /\ ValidSlice(i, BatchEnd(i, cfg.BatchSize, Len(needsFunding)))
    /\ LET end == BatchEnd(i, cfg.BatchSize, Len(needsFunding))
           batch == SubSeq(needsFunding, i + 1, end)
       IN batches' = Append(batches,
             [accounts |-> batch,
              msgs |-> BatchMsgs(batch, cfg),
              gasLimit |-> GasLimit(Len(batch)),
              fee |-> FeeAmount(GasLimit(Len(batch))),
              seq |-> NoSeq,
              accountNumber |-> NoSeq,
              hist |-> <<"Built">>])
    /\ spc' = "built"
    /\ UNCHANGED <<genVars, facVars, auxVars, cfg, restLatency, seedAddr,
                   failedQ, run, chainSeedBalance, chainSeedAcc, chainBal,
                   seedBalance, seedAccountNum, seedSequence, needsFunding,
                   idx, i, currentSeq, elapsed, allFunded, result, accQueries>>

\* lines 406-409: txBuilder.SetMsgs fails
BuildBatchFail ==
    /\ spc = "loop"
    /\ i < Len(needsFunding)
    /\ ValidSlice(i, BatchEnd(i, cfg.BatchSize, Len(needsFunding)))
    /\ Return("errSetMsgs")
    /\ UNCHANGED <<genVars, facVars, auxVars, cfg, restLatency, seedAddr,
                   failedQ, run, chainSeedBalance, chainSeedAcc, chainBal,
                   seedBalance, seedAccountNum, seedSequence, needsFunding,
                   idx, i, currentSeq, elapsed, allFunded, batches,
                   accQueries>>

\* lines 421-464: both signing rounds with currentSeq and accountNum, and
\* the encoding
SignBatch ==
    /\ spc = "built"
    /\ batches' = [batches EXCEPT ![Cur].seq = currentSeq,
                                  ![Cur].accountNumber = seedAccountNum,
                                  ![Cur].hist = Append(@, "Signed")]
    /\ spc' = "signed"
    /\ UNCHANGED <<genVars, facVars, auxVars, cfg, restLatency, seedAddr,
                   failedQ, run, chainSeedBalance, chainSeedAcc, chainBal,
                   seedBalance, seedAccountNum, seedSequence, needsFunding,
                   idx, i, currentSeq, elapsed, allFunded, result, accQueries>>

\* lines 430-464: SetSignatures, SignWithPrivKey or the encoder fails
SignBatchFail ==
    /\ spc = "built"
    /\ Return("errSign")
    /\ UNCHANGED <<genVars, facVars, auxVars, cfg, restLatency, seedAddr,
                   failedQ, run, chainSeedBalance, chainSeedAcc, chainBal,
                   seedBalance, seedAccountNum, seedSequence, needsFunding,
                   idx, i, currentSeq, elapsed, allFunded, batches,
                   accQueries>>

\* lines 476-482: grpc.Dial fails, nothing is sent
DialFail ==
    /\ spc = "signed"
    /\ Return("errDial")
    /\ UNCHANGED <<genVars, facVars, auxVars, cfg, restLatency, seedAddr,
                   failedQ, run, chainSeedBalance, chainSeedAcc, chainBal,
                   seedBalance, seedAccountNum, seedSequence, needsFunding,
                   idx, i, currentSeq, elapsed, allFunded, batches,
                   accQueries>>

\* lines 476-488: the transaction is submitted with BROADCAST_MODE_SYNC
BroadcastSend ==
    /\ spc = "signed"
    /\ Advance("Broadcast")
    /\ spc' = "broadcast"
    /\ UNCHANGED <<genVars, facVars, auxVars, cfg, restLatency, seedAddr,
                   failedQ, run, chainSeedBalance, chainSeedAcc, chainBal,
                   seedBalance, seedAccountNum, seedSequence, needsFunding,
                   idx, i, currentSeq, elapsed, allFunded, result, accQueries>>

\* lines 489-497: BroadcastTx returns an error, or a response with a
\* non-zero code
BroadcastRejected ==
    /\ spc = "broadcast"
    /\ Advance("Failed")
    /\ \E r \in {"errBroadcast", "errRejected"} : Return(r)
    /\ UNCHANGED <<genVars, facVars, auxVars, cfg, restLatency, seedAddr,
                   failedQ, run, chainSeedBalance, chainSeedAcc, chainBal,
                   seedBalance, seedAccountNum, seedSequence, needsFunding,
                   idx, i, currentSeq, elapsed, allFunded, accQueries>>

\* the balances after the transfers of batch b have executed
Credit(bal, b) ==
    [a \in DOMAIN bal |->
        IF \E k \in 1..Len(b.accounts) : b.accounts[k] = a
          THEN bal[a] + b.msgs[1].amount ELSE bal[a]]

\* mutation: the sequence is not advanced after a confirmed batch
SeqAfterConfirmed_Stuck(s) == s

\* line 558: currentSeq++
SeqAfterConfirmed(s) == s + 1

\* the run goes on behind a batch: line 558, the loop increment of line
\* 388, and, when the loop is over, the start of the verification
NextBatch ==
    /\ currentSeq' = SeqAfterConfirmed(currentSeq)
    /\ i' = i + cfg.BatchSize
    /\ IF i' < Len(needsFunding)
         THEN spc' = "loop" /\ UNCHANGED <<idx, allFunded>>
         ELSE spc' = "verify" /\ idx' = 0 /\ allFunded' = TRUE
    /\ UNCHANGED result

\* mutation: the run does not wait for the confirmation
BroadcastAccepted_NoWait ==
    /\ spc = "broadcast"
    /\ NextBatch
    /\ UNCHANGED <<genVars, facVars, auxVars, cfg, restLatency, seedAddr,
                   failedQ, run, chainSeedBalance, chainSeedAcc, chainBal,
                   seedBalance, seedAccountNum, seedSequence, needsFunding,
                   elapsed, batches, accQueries>>

\* lines 495-497 with batch size 0: the node accepted the transaction and
\* the progress line divides by cfg.BatchSize, an integer division by zero
BroadcastAcceptedPanic ==
    /\ spc = "broadcast"
    /\ cfg.BatchSize = 0
    /\ Return("panicDivideByZero")
    /\ UNCHANGED <<genVars, facVars, auxVars, cfg, restLatency, seedAddr,
                   failedQ, run, chainSeedBalance, chainSeedAcc, chainBal,
                   seedBalance, seedAccountNum, seedSequence, needsFunding,
                   idx, i, currentSeq, elapsed, allFunded, batches,
                   accQueries>>

\* lines 495-508: the node accepted the transaction, the progress line
\* is printed and polling starts
BroadcastAccepted ==
    /\ spc = "broadcast"
    /\ cfg.BatchSize # 0
    /\ spc' = "poll"
    /\ elapsed' = 0
    /\ UNCHANGED <<genVars, facVars, auxVars, cfg, restLatency, seedAddr,
                   failedQ, run, chainSeedBalance, chainSeedAcc, chainBal,
                   seedBalance, seedAccountNum, seedSequence, needsFunding,
                   idx, i, currentSeq, allFunded, result, batches, accQueries>>

\* mutation: the poll loop has no deadline
WithinMaxWait_Forever(e) == TRUE

\* line 509: time.Since(startTime) < maxWait
WithinMaxWait(e) == e < MaxWaitMs

\* http.StatusOK and http.StatusNotFound, lines 513 and 538
StatusOK == 200
StatusNotFound == 404
\* what restClient.Get(txStatusURL) of line 512 gives: err whether it
\* returned an error (and no response), status the StatusCode, decodes
\* whether the body is the JSON of a status, height and code its
\* tx_response.height and tx_response.code
Resp(err, status, decodes, height, code) ==
    [err |-> err, status |-> status, decodes |-> decodes,
     height |-> height, code |-> code]
\* no status query was answered yet
NoResp == Resp(FALSE, 0, FALSE, "", 0)
\* transport error, 404, another status, 200 with a body that does not
\* decode, 200 with an empty height or height "0", with or without a code
PendingResponses ==
    {Resp(TRUE, 0, FALSE, "", 0),
     Resp(FALSE, StatusNotFound, FALSE, "", 0),
     Resp(FALSE, StatusOK + 300, FALSE, "", 0),
     Resp(FALSE, StatusOK, FALSE, "", 0),
     Resp(FALSE, StatusOK, TRUE, "", 0),
     Resp(FALSE, StatusOK, TRUE, "0", 0),
     Resp(FALSE, StatusOK, TRUE, "", 1)}
\* 200 with the height of a block, and code 0 or not
InclusionResponses ==
    {Resp(FALSE, StatusOK, TRUE, "7", 0), Resp(FALSE, StatusOK, TRUE, "7", 1)}
StatusResponses == PendingResponses \cup InclusionResponses
\* a node that answers 404 until the transaction is in a block
PlainResponses ==
    {Resp(FALSE, StatusNotFound, FALSE, "", 0)} \cup InclusionResponses

\* mutation: a status other than 200 and 404 ends the batch
PollVerdict_StatusAborts(r) ==
    IF ~r.err /\ r.status = StatusOK
      THEN IF r.decodes /\ r.height # "" /\ r.height # "0"
             THEN IF r.code # 0 THEN "abort" ELSE "confirmed"
             ELSE "continue"
    ELSE IF ~r.err /\ r.status # StatusNotFound THEN "abort"
    ELSE "continue"

\* lines 513-548: what one iteration of the poll loop makes of the
\* answer: only a 200 that decodes and carries a height other than ""
\* and "0" ends the loop, by return when its code is not 0 and by break
\* otherwise; a 404 is closed, another status is printed as a warning, a
\* transport error is passed over
PollVerdict(r) ==
    IF ~r.err /\ r.status = StatusOK
      THEN IF r.decodes /\ r.height # "" /\ r.height # "0"
             THEN IF r.code # 0 THEN "abort" ELSE "confirmed"
             ELSE "continue"
    ELSE "continue"

\* mutation: the clock of the poll loop stands still
PollPending_NoClock ==
    /\ spc = "poll"
    /\ WithinMaxWait(elapsed)
    /\ UNCHANGED vars

\* lines 509-551: a status poll that does not see the transaction in a
\* block; the loop sleeps and tries again
PollPending ==
    /\ spc = "poll"
    /\ WithinMaxWait(elapsed)
    /\ \E r \in statusAnswers :
         /\ PollVerdict(r) = "continue"
         /\ txStatusResp' = r
    /\ \E d \in restLatency : elapsed' = elapsed + d + PollSleepMs
    /\ UNCHANGED <<genVars, facVars, drvVars, urlVars, tuiVars, stopVars,
                   benchVars, validVars, statusAnswers, cfg, restLatency,
                   seedAddr, failedQ, run, chainSeedBalance, chainSeedAcc,
                   chainBal, spc, seedBalance, seedAccountNum, seedSequence,
                   needsFunding, idx, i, currentSeq, allFunded, result,
                   batches, accQueries>>

\* lines 523-533, 552-558: the poll sees the transaction in a block with
\* code 0; txIncluded, break, currentSeq++ and the next iteration
PollIncluded ==
    /\ spc = "poll"
    /\ WithinMaxWait(elapsed)
    /\ \E r \in statusAnswers :
         /\ PollVerdict(r) = "confirmed"
         /\ txStatusResp' = r
    /\ Advance("Confirmed")
    /\ chainBal' = Credit(chainBal, batches[Cur])
    /\ NextBatch
    /\ UNCHANGED <<genVars, facVars, drvVars, urlVars, tuiVars, stopVars,
                   benchVars, validVars, statusAnswers, cfg, restLatency,
                   seedAddr, failedQ, run, chainSeedBalance, chainSeedAcc,
                   seedBalance, seedAccountNum, seedSequence, needsFunding,
                   elapsed, accQueries>>

\* lines 523-528: the poll sees the transaction in a block with a non-zero
\* code
PollOnChainFailure ==
    /\ spc = "poll"
    /\ WithinMaxWait(elapsed)
    /\ \E r \in statusAnswers :
         /\ PollVerdict(r) = "abort"
         /\ txStatusResp' = r
    /\ Advance("Failed")
    /\ Return("errOnChain")
    /\ UNCHANGED <<genVars, facVars, drvVars, urlVars, tuiVars, stopVars,
                   benchVars, validVars, statusAnswers, cfg, restLatency,
                   seedAddr, failedQ, run, chainSeedBalance, chainSeedAcc,
                   chainBal, seedBalance, seedAccountNum, seedSequence,
                   needsFunding, idx, i, currentSeq, elapsed, allFunded,
                   accQueries>>

\* mutation: a timed-out batch is skipped and the run goes on
PollTimeout_Continue ==
    /\ spc = "poll"
    /\ ~WithinMaxWait(elapsed)
    /\ Advance("TimedOut")
    /\ NextBatch
    /\ UNCHANGED <<genVars, facVars, auxVars, cfg, restLatency, seedAddr,
                   failedQ, run, chainSeedBalance, chainSeedAcc, chainBal,
                   seedBalance, seedAccountNum, seedSequence, needsFunding,
                   elapsed, accQueries>>

\* lines 509, 552-556: maxWait is over and txIncluded is false
PollTimeout ==
    /\ spc = "poll"
    /\ ~WithinMaxWait(elapsed)
    /\ Advance("TimedOut")
    /\ Return("errTimeout")
    /\ UNCHANGED <<genVars, facVars, auxVars, cfg, restLatency, seedAddr,
                   failedQ, run, chainSeedBalance, chainSeedAcc, chainBal,
                   seedBalance, seedAccountNum, seedSequence, needsFunding,
                   idx, i, currentSeq, elapsed, allFunded, accQueries>>

\* base units a bench account sends per transaction, bank_send.go line 66
SendAmount == 1
\* what a bench account can have spent between the confirmation of its
\* funding and its re-query
Spendings == {0, SendAmount}

\* mutation: the flag only tells about the account queried last
AllFundedAfter_Last(all, queryOk, bal, c) ==
    ~(~queryOk \/ BelowThreshold(bal, c))

\* lines 567-601: allFunded after the re-query of one account
AllFundedAfter(all, queryOk, bal, c) ==
    IF ~queryOk \/ BelowThreshold(bal, c) THEN FALSE ELSE all

\* lines 564-608: one iteration of the verification loop for
\* needsFunding[idx], on the balance the ledger holds by then; after the
\* last one the run returns
VerifyAccount ==
    /\ spc = "verify"
    /\ idx < Len(needsFunding)
    /\ LET a == needsFunding[idx + 1]
       IN \E queryOk \in BOOLEAN : \E spent \in Spendings :
            /\ spent <= chainBal[a]
            /\ chainBal' = [chainBal EXCEPT ![a] = @ - spent]
            /\ allFunded' =
                 AllFundedAfter(allFunded, queryOk, chainBal'[a], cfg)
    /\ idx' = idx + 1
    /\ IF idx' < Len(needsFunding)
         THEN UNCHANGED <<spc, result>>
         ELSE Return(IF allFunded' THEN "ok" ELSE "errPartialFunding")
    /\ UNCHANGED <<genVars, facVars, auxVars, cfg, restLatency, seedAddr,
                   failedQ, run, chainSeedBalance, chainSeedAcc, seedBalance,
                   seedAccountNum, seedSequence, needsFunding, i, currentSeq,
                   elapsed, batches, accQueries>>

\* the command is started again after a run that returned nil, with the
\* same configuration, on the ledger the first run left: the worker
\* balances as credited, the seed account's sequence advanced by its
\* confirmed transactions; its balance is again short of, or equal to, the
\* required total
Rerun ==
    /\ spc = "done"
    /\ result = "ok"
    /\ run = "first"
    /\ run' = "second"
    /\ chainSeedAcc' = [chainSeedAcc EXCEPT
                          !.sequence = IF batches = <<>> THEN @ ELSE currentSeq]
    /\ chainSeedBalance' \in {TotalRequired(cfg) - 1, TotalRequired(cfg)}
    /\ spc' = "identity"
    /\ seedAddr' = NoAddr
    /\ failedQ' = {}
    /\ seedBalance' = NoBalance
    /\ seedAccountNum' = 0
    /\ seedSequence' = 0
    /\ needsFunding' = <<>>
    /\ idx' = 0
    /\ i' = 0
    /\ currentSeq' = 0
    /\ elapsed' = 0
    /\ allFunded' = TRUE
    /\ result' = "none"
    /\ batches' = <<>>
    /\ accQueries' = 0
    /\ UNCHANGED <<genVars, facVars, auxVars, cfg, restLatency, chainBal>>

SeedNext ==
    \/ ResolveIdentity
    \/ Rerun
    \/ SeedBalanceFail
    \/ SeedBalanceOk
    \/ SeedAccountFail
    \/ SeedAccountOk
    \/ ClassifyAccount
    \/ BuildBatch
    \/ BuildBatchFail
    \/ SignBatch
    \/ SignBatchFail
    \/ DialFail
    \/ BroadcastSend
    \/ BroadcastRejected
    \/ BroadcastAccepted
    \/ PollPending
    \/ PollIncluded
    \/ PollOnChainFailure
    \/ PollTimeout
    \/ VerifyAccount

\* ---------------------------------------------------- the client factory
\* the arguments NewBankSendStrategy can be called with, and the values the
\* environment variables can hold ("" when unset)
ChainIDs == {"", "perpx-testnet"}
Denoms == {"", "uperpx"}
SinkAddrs == {EmptyAddr, [text |-> "perpx1sink", bech32 |-> TRUE],
              [text |-> "not-an-address", bech32 |-> FALSE]}
StrategyArgs == [chainID : ChainIDs, denom : Denoms, sinkAddr : SinkAddrs]
\* the environments a load test runs in: nothing set, everything set, and
\* a sink address that is no address
Environments ==
    { [chainID |-> "", denom |-> "", sinkAddr |-> EmptyAddr],
      [chainID |-> "perpx-testnet", denom |-> "uperpx",
       sinkAddr |-> [text |-> "perpx1sink", bech32 |-> TRUE]],
      [chainID |-> "", denom |-> "uperpx",
       sinkAddr |-> [text |-> "not-an-address", bech32 |-> FALSE]] }

\* factory.go lines 67-72: getEnv
GetEnv(val, empty, defaultValue) ==
    IF val # empty THEN val ELSE defaultValue

\* no strategy, no client, no message, no worker id
NoStrategy == [chainID |-> "", denom |-> "", sinkAddr |-> EmptyAddr]
NoClient == [workerID |-> NoSeq, addr |-> AddressOf("none"),
             strategy |-> NoStrategy]
NoMsg == [from |-> EmptyAddr, to |-> EmptyAddr, denom |-> "",
          amount |-> 0]
\* the errors of NewBankSendStrategy
ConfigErrors == {"errChainIDEmpty", "errDenomEmpty", "errSinkEmpty",
                 "errSinkInvalid"}

\* sdk.AccAddressFromBech32 returns no error; the empty string is no
\* bech32
ValidBech32(a) == a.bech32
\* addr.String(): the bech32 text of an address
AddrString(addr) == [text |-> addr, bech32 |-> TRUE]

\* mutation: the sink address is not parsed
NewBankSendStrategy_NoParse(chainID, denom, sinkAddr) ==
    IF chainID = "" THEN [err |-> "errChainIDEmpty", strategy |-> NoStrategy]
    ELSE IF denom = "" THEN [err |-> "errDenomEmpty", strategy |-> NoStrategy]
    ELSE IF sinkAddr.text = ""
      THEN [err |-> "errSinkEmpty", strategy |-> NoStrategy]
    ELSE [err |-> "none",
          strategy |-> [chainID |-> chainID, denom |-> denom,
                        sinkAddr |-> sinkAddr]]

\* bank_send.go lines 19-41
NewBankSendStrategy(chainID, denom, sinkAddr) ==
    IF chainID = "" THEN [err |-> "errChainIDEmpty", strategy |-> NoStrategy]
    ELSE IF denom = "" THEN [err |-> "errDenomEmpty", strategy |-> NoStrategy]
    ELSE IF sinkAddr.text = ""
      THEN [err |-> "errSinkEmpty", strategy |-> NoStrategy]
    ELSE IF ~ValidBech32(sinkAddr)
      THEN [err |-> "errSinkInvalid", strategy |-> NoStrategy]
    ELSE [err |-> "none",
          strategy |-> [chainID |-> chainID, denom |-> denom,
                        sinkAddr |-> sinkAddr]]

\* bank_send.go lines 54-71: CreateMsg
CreateMsg(s, fromAddr) ==
    IF ~ValidBech32(fromAddr)
      THEN [err |-> "errFromAddr", msg |-> NoMsg]
      ELSE [err |-> "none",
            msg |-> [from |-> fromAddr, to |-> s.sinkAddr,
                     denom |-> s.denom, amount |-> SendAmount]]

\* the goroutines that call NewClient on the one factory
FactoryCalls == 1..NumFactoryCalls

FacInit ==
    /\ env \in Environments
    /\ sargs \in StrategyArgs
    /\ sres = [err |-> "pending", strategy |-> NoStrategy]
    /\ workerCounter = 0
    /\ fpc = [g \in FactoryCalls |-> "idle"]
    /\ fret = [g \in FactoryCalls |-> "none"]
    /\ fstrategy = [g \in FactoryCalls |-> NoStrategy]
    /\ fid = [g \in FactoryCalls |-> NoSeq]
    /\ fclient = [g \in FactoryCalls |-> NoClient]
    /\ fmsg = [g \in FactoryCalls |-> [err |-> "pending", msg |-> NoMsg]]

\* a direct call of the exported constructor with the arguments sargs
NewStrategy ==
    /\ sres.err = "pending"
    /\ sres' = NewBankSendStrategy(sargs.chainID, sargs.denom, sargs.sinkAddr)
    /\ UNCHANGED <<genVars, seedVars, auxVars, env, sargs, workerCounter, fpc,
                   fret, fstrategy, fid, fclient, fmsg>>

\* the environment of the process changes between two calls of NewClient,
\* each of which reads it anew (factory.go lines 44-47)
Setenv ==
    /\ \E e \in Environments :
         /\ e # env
         /\ env' = e
    /\ UNCHANGED <<genVars, seedVars, auxVars, sargs, sres, workerCounter,
                   fpc, fret, fstrategy, fid, fclient, fmsg>>

\* mutation: the counter is advanced before the strategy is created, so a
\* call the strategy rejects takes a worker id with it
NewClientStrategy_Consume(g) ==
    /\ fpc[g] = "idle"
    /\ LET r == NewBankSendStrategy(
                   GetEnv(env.chainID, "", DefaultChainID),
                   GetEnv(env.denom, "", DefaultDenom),
                   GetEnv(env.sinkAddr, EmptyAddr, DefaultSinkAddr))
       IN IF r.err # "none"
            THEN /\ fret' = [fret EXCEPT ![g] = r.err]
                 /\ fpc' = [fpc EXCEPT ![g] = "done"]
                 /\ workerCounter' = workerCounter + 1
                 /\ UNCHANGED fstrategy
            ELSE /\ fstrategy' = [fstrategy EXCEPT ![g] = r.strategy]
                 /\ fpc' = [fpc EXCEPT ![g] = "counter"]
                 /\ UNCHANGED <<fret, workerCounter>>
    /\ UNCHANGED <<genVars, seedVars, auxVars, env, sargs, sres, fid, fclient,
                   fmsg>>

\* factory.go lines 44-53: the environment is read and the strategy is
\* created; its error is returned before the counter is touched
NewClientStrategy(g) ==
    /\ fpc[g] = "idle"
    /\ LET r == NewBankSendStrategy(
                   GetEnv(env.chainID, "", DefaultChainID),
                   GetEnv(env.denom, "", DefaultDenom),
                   GetEnv(env.sinkAddr, EmptyAddr, DefaultSinkAddr))
       IN IF r.err # "none"
            THEN /\ fret' = [fret EXCEPT ![g] = r.err]
                 /\ fpc' = [fpc EXCEPT ![g] = "done"]
                 /\ UNCHANGED fstrategy
            ELSE /\ fstrategy' = [fstrategy EXCEPT ![g] = r.strategy]
                 /\ fpc' = [fpc EXCEPT ![g] = "counter"]
                 /\ UNCHANGED fret
    /\ UNCHANGED <<genVars, seedVars, auxVars, env, sargs, sres, workerCounter,
                   fid, fclient, fmsg>>

\* mutation: the counter is read and written in two steps, so a call can
\* work from a value another call has already taken
NewClientAssign_Racy(g) ==
    /\ fpc[g] = "counter"
    /\ \E seen \in 0..workerCounter :
         /\ fid' = [fid EXCEPT ![g] = seen]
         /\ workerCounter' = seen + 1
    /\ fpc' = [fpc EXCEPT ![g] = "construct"]
    /\ UNCHANGED <<genVars, seedVars, auxVars, env, sargs, sres, fret,
                   fstrategy, fclient, fmsg>>

\* factory.go line 56: workerID := atomic.AddInt64(&f.workerCounter, 1) - 1
NewClientAssign(g) ==
    /\ fpc[g] = "counter"
    /\ workerCounter' = workerCounter + 1
    /\ fid' = [fid EXCEPT ![g] = workerCounter' - 1]
    /\ fpc' = [fpc EXCEPT ![g] = "construct"]
    /\ UNCHANGED <<genVars, seedVars, auxVars, env, sargs, sres, fret,
                   fstrategy, fclient, fmsg>>

\* factory.go lines 59-64 and part_003 lines 55-125: NewPerpxBankClient
\* derives the key of the worker id and returns the client
NewClientConstruct(g) ==
    /\ fpc[g] = "construct"
    /\ fclient' = [fclient EXCEPT ![g] =
                      [workerID |-> fid[g], addr |-> ClientAddr(fid[g]),
                       strategy |-> fstrategy[g]]]
    /\ fret' = [fret EXCEPT ![g] = "ok"]
    /\ fpc' = [fpc EXCEPT ![g] = "done"]
    /\ UNCHANGED <<genVars, seedVars, auxVars, env, sargs, sres, workerCounter,
                   fstrategy, fid, fmsg>>

\* part_003 line 200: GenerateTx of the client asks its strategy for the
\* message, from c.addr.String()
ClientCreateMsg(g) ==
    /\ fpc[g] = "done"
    /\ fret[g] = "ok"
    /\ fmsg[g].err = "pending"
    /\ fmsg' = [fmsg EXCEPT ![g] =
                   CreateMsg(fclient[g].strategy,
                             AddrString(fclient[g].addr))]
    /\ UNCHANGED <<genVars, seedVars, auxVars, env, sargs, sres, workerCounter,
                   fpc, fret, fstrategy, fid, fclient>>

FacNext ==
    \/ NewStrategy
    \/ \E g \in FactoryCalls :
        \/ NewClientStrategy(g)
        \/ NewClientAssign(g)
        \/ NewClientConstruct(g)
        \/ ClientCreateMsg(g)

\* ------------------------------------------- derivation of the accounts
\* the worker indices whose accounts are compared
WorkerIndices == 0..MaxIndex
\* two different worker indices
IndexPairs == {q \in WorkerIndices \X WorkerIndices : q[1] < q[2]}
\* no address derived yet
NoAddrs == <<>>

DrvInit ==
    /\ dpair \in IndexPairs
    /\ caddr = NoAddrs
    /\ baddr = NoAddrs

\* NewPerpxBankClient derives the accounts of the two workers
DeriveClientAddrs ==
    /\ caddr = NoAddrs
    /\ caddr' = <<ClientAddr(dpair[1]), ClientAddr(dpair[2])>>
    /\ UNCHANGED <<extVars, genVars, seedVars, facVars, urlVars, tuiVars,
                   stopVars, dpair, baddr>>

\* seedAccounts derives the accounts of the two workers, lines 329-338
DeriveBenchAddrs ==
    /\ baddr = NoAddrs
    /\ baddr' = <<BenchAddr(dpair[1]), BenchAddr(dpair[2])>>
    /\ UNCHANGED <<extVars, genVars, seedVars, facVars, urlVars, tuiVars,
                   stopVars, dpair, caddr>>

DrvNext ==
    \/ DeriveClientAddrs
    \/ DeriveBenchAddrs

\* ----------------------------------------------------- REST base URLs
\* strings are sequences of characters
\* strings.HasSuffix
HasSuffix(str, suffix) ==
    /\ Len(str) >= Len(suffix)
    /\ SubSeq(str, Len(str) - Len(suffix) + 1, Len(str)) = suffix
\* strings.Index, counted from 1; 0 when substr does not occur
Index(str, substr) ==
    LET at == {k \in 1..(Len(str) - Len(substr) + 1) :
                  SubSeq(str, k, k + Len(substr) - 1) = substr}
    IN IF at = {} THEN 0 ELSE CHOOSE k \in at : \A m \in at : k <= m
\* strings.Contains
Contains(str, substr) == Index(str, substr) # 0
\* strings.Replace(str, old, new, 1)
ReplaceFirst(str, old, new) ==
    LET k == Index(str, old)
    IN IF k = 0 THEN str
       ELSE SubSeq(str, 1, k - 1) \o new
              \o SubSeq(str, k + Len(old), Len(str))
\* strings.Replace(str, old, new, -1), for a non-empty old
RECURSIVE ReplaceAll(_, _, _)
ReplaceAll(str, old, new) ==
    LET k == Index(str, old)
    IN IF k = 0 THEN str
       ELSE SubSeq(str, 1, k - 1) \o new
              \o ReplaceAll(SubSeq(str, k + Len(old), Len(str)), old, new)
\* strings.TrimSuffix
TrimSuffix(str, suffix) ==
    IF HasSuffix(str, suffix)
      THEN SubSeq(str, 1, Len(str) - Len(suffix))
      ELSE str

\* the string literals of the two derivations
WsScheme == <<"w", "s", ":", "/", "/">>
WssScheme == <<"w", "s", "s", ":", "/", "/">>
HttpScheme == <<"h", "t", "t", "p", ":", "/", "/">>
HttpsScheme == <<"h", "t", "t", "p", "s", ":", "/", "/">>
WebsocketPath == <<"/", "w", "e", "b", "s", "o", "c", "k", "e", "t">>
Localhost == <<"l", "o", "c", "a", "l", "h", "o", "s", "t">>
Loopback == <<"1", "2", "7", ".", "0", ".", "0", ".", "1">>
\* a host that is not the local machine
RemoteHost == <<"n", "o", "d", "e", "1">>
\* the ports named by the derivations
PerpxRpcPort == 36657
PerpxRestPort == 31317
StdRpcPort == 26657
StdRestPort == 1317
\* ":" followed by the port
PortText(port) == <<":">> \o Decimal(port)
\* restURL when no port is recognised
DefaultRestURL == HttpScheme \o Localhost \o PortText(PerpxRestPort)
\* rpcEndpoint when cfg.Endpoints[0] is empty, part_003 line 80
DefaultRpcEndpoint == HttpScheme \o Localhost \o PortText(PerpxRpcPort)
\* no URL derived yet
NoUrl == <<>>

\* part_003 lines 267-284: the suffix test compares the last 11
\* characters with the 10 characters of "/websocket"
convertWebSocketToHTTP(wsURL) ==
    LET strip(httpURL) ==
          IF /\ Len(httpURL) > 11
             /\ SubSeq(httpURL, Len(httpURL) - 10, Len(httpURL))
                  = WebsocketPath
            THEN SubSeq(httpURL, 1, Len(httpURL) - 11)
            ELSE httpURL
    IN IF Len(wsURL) > 5 /\ SubSeq(wsURL, 1, 5) = WsScheme
         THEN strip(HttpScheme \o SubSeq(wsURL, 6, Len(wsURL)))
       ELSE IF Len(wsURL) > 6 /\ SubSeq(wsURL, 1, 6) = WssScheme
         THEN strip(HttpsScheme \o SubSeq(wsURL, 7, Len(wsURL)))
       ELSE wsURL

\* part_003 lines 70-81: rpcEndpoint
RpcEndpoint(ep) ==
    IF Len(ep) > 0
      THEN ReplaceAll(TrimSuffix(convertWebSocketToHTTP(ep), WebsocketPath),
                      Loopback, Localhost)
      ELSE DefaultRpcEndpoint

\* lines 100-108 of part_003 and lines 235-243 of seed.go: the REST base
\* URL of an RPC URL
RestOfRpc(url) ==
    LET first == ReplaceFirst(url, PortText(PerpxRpcPort),
                              PortText(PerpxRestPort))
        second == ReplaceFirst(url, PortText(StdRpcPort),
                               PortText(StdRestPort))
    IN IF Contains(first, PortText(PerpxRestPort)) THEN first
       ELSE IF Contains(second, PortText(StdRestPort)) THEN second
       ELSE DefaultRestURL

\* part_003 lines 70-108: restURL of the client
ClientRestURL(ep) == RestOfRpc(RpcEndpoint(ep))
\* seed.go lines 235-243: restURL of the seeder
SeedRestURL(rpcURL) == RestOfRpc(rpcURL)

\* the nodes a run can point at: with or without TLS, on this machine by
\* name or by address or on another host, on the perpx RPC port, the
\* standard RPC port, another port, a port whose digits begin like the
\* standard REST port, or no port
NoPort == -1
Hosts == {Localhost, Loopback, RemoteHost}
Ports == {PerpxRpcPort, StdRpcPort, PerpxRpcPort + 1, StdRestPort * 10,
          NoPort}
Nodes == [tls : BOOLEAN, host : Hosts, port : Ports]
\* host and port of a node as they appear in a URL
HostPort(n) ==
    n.host \o (IF n.port = NoPort THEN <<>> ELSE PortText(n.port))
\* the RPC URL of a node, as given to the seeder by --rpc
RpcUrlOf(n) ==
    (IF n.tls THEN HttpsScheme ELSE HttpScheme) \o HostPort(n)
\* the websocket endpoint of a node, as given to the load test by
\* --endpoints
WsUrlOf(n) ==
    (IF n.tls THEN WssScheme ELSE WsScheme) \o HostPort(n)
        \o WebsocketPath

\* the seeder is given the RPC URL of the node, the load test its
\* websocket endpoint or its RPC URL
UrlInit ==
    /\ \E n \in Nodes :
         /\ rpc = RpcUrlOf(n)
         /\ endpoint \in {WsUrlOf(n), RpcUrlOf(n)}
    /\ clientRest = NoUrl
    /\ seedRest = NoUrl

\* NewPerpxBankClient derives its restURL
ClientDeriveRest ==
    /\ clientRest = NoUrl
    /\ clientRest' = ClientRestURL(endpoint)
    /\ UNCHANGED <<extVars, genVars, seedVars, facVars, drvVars, tuiVars,
                   stopVars, endpoint, rpc, seedRest>>

\* seedAccounts derives its restURL
SeedDeriveRest ==
    /\ seedRest = NoUrl
    /\ seedRest' = SeedRestURL(rpc)
    /\ UNCHANGED <<extVars, genVars, seedVars, facVars, drvVars, tuiVars,
                   stopVars, endpoint, rpc, clientRest>>

UrlNext ==
    \/ ClientDeriveRest
    \/ SeedDeriveRest

\* --------------------------------- ExecuteStandalone and the display
\* the goroutines that take tg.statsMtx
RenderGoroutine == <<"render", 0>>
Producer(t) == <<"transactor", t>>
\* ids of the transactors of the group
Transactors == 0..(NumTransactors - 1)
\* cfg.Connections of the watched load test: transactors per endpoint
ConnectionsPerEndpoint == 2
\* the endpoint shown for ids outside tg.transactors, line 346
UnknownEndpoint == -1
\* lines 346-349: the endpoint a counter is shown under
EndpointOf(id) ==
    IF id >= 0 /\ id < NumTransactors
      THEN id \div ConnectionsPerEndpoint
      ELSE UnknownEndpoint
\* an empty map
EmptyMap == [k \in {} |-> 0]
\* the sum of the counters f over the ids S
RECURSIVE SumOver(_, _)
SumOver(f, S) ==
    IF S = {} THEN 0
    ELSE LET x == CHOOSE y \in S : TRUE
         IN f[x] + SumOver(f, S \ {x})
\* mutation: agg.tx is assigned the counter and not added to
Aggregate_Overwrite(counts) ==
    [ep \in {EndpointOf(id) : id \in DOMAIN counts} |->
        counts[CHOOSE id \in DOMAIN counts : EndpointOf(id) = ep]]

\* lines 345-357: the counters aggregated by endpoint
Aggregate(counts) ==
    [ep \in {EndpointOf(id) : id \in DOMAIN counts} |->
        SumOver(counts, {id \in DOMAIN counts : EndpointOf(id) = ep})]
\* the keys tg.txCounts can have: the ids of the transactors and an id
\* on either side of them
CounterIds == (UnknownEndpoint)..NumTransactors
\* the counters of a group that has reported under some of the ids
CounterMaps == UNION {[S -> 1..MaxTx] : S \in SUBSET CounterIds}
\* lines 360-365: totalTxs, the sum over the endpoint groups
TotalTxs(groups) == SumOver(groups, DOMAIN groups)
\* lines 329-333: dt, 1 when the clock did not advance
ElapsedSeconds(d) == IF d <= 0 THEN 1 ELSE d

\* mutation: the rate is taken from the cumulative count
PrevTx_Zero(last, ep) == 0

\* line 405: prevTx := lastByEP[ep], the zero value for a missing key
PrevTx(last, ep) == IF ep \in DOMAIN last THEN last[ep] ELSE 0

\* lines 403-415: the tx rates of the table, as quotients delta / dt
RatesOf(cur, last, d) ==
    [ep \in DOMAIN cur |-> [delta |-> cur[ep] - PrevTx(last, ep),
                            dt |-> d]]

\* the configurations of a standalone run
UIModes == {"tui", "plain"}
StandaloneConfigs ==
    [UI : UIModes, NoTrapInterrupts : BOOLEAN, StatsOutputFile : BOOLEAN]
tuiMode == tcfg.UI = "tui"
\* whether the render goroutine has exited (or was never started): the
\* channel stopped is closed
RenderExited == tpc \in {"none", "exited"}

\* ExecuteStandalone is entered; the display and the group do not exist
TuiInitOver(C) ==
    /\ tcfg \in C
    /\ mpc = "setup"
    /\ stopRet = "none"
    /\ ret = "none"
    /\ tuiOn = FALSE
    /\ trap = "none"
    /\ printed = {}
    /\ tgState = "idle"
    /\ txCounts = EmptyMap
    /\ statsMtx = [readers |-> {}, writers |-> {}]
    /\ tpc = "none"
    /\ stopc = FALSE
    /\ dt = 0
    /\ byEP = EmptyMap
    /\ lastByEP = EmptyMap
    /\ cursorHidden = FALSE
    /\ screen = "shell"
    /\ shown = EmptyMap
    /\ prevSnap = EmptyMap
    /\ totalTxs = 0
    /\ readCounts = EmptyMap
TuiInit == TuiInitOver(StandaloneConfigs)

\* part_004 lines 29-52: waiting for peers or connecting fails and the
\* error is returned (in TUI mode the logger is a no-op)
MainSetupFail ==
    /\ mpc = "setup"
    /\ mpc' = "returned"
    /\ ret' = "err"
    /\ UNCHANGED <<extVars, genVars, seedVars, facVars, drvVars, urlVars,
                   stopVars, tcfg, stopRet, tuiOn, trap, printed, tgState,
                   txCounts, statsMtx, tpc, stopc, dt, byEP, lastByEP,
                   cursorHidden, screen, shown, prevSnap, totalTxs,
                   readCounts>>

\* part_004 lines 47-54: the group is built and started
MainStart ==
    /\ mpc = "setup"
    /\ tgState' = "running"
    /\ mpc' = "tui"
    /\ UNCHANGED <<extVars, genVars, seedVars, facVars, drvVars, urlVars,
                   stopVars, tcfg, stopRet, ret, tuiOn, trap, printed,
                   txCounts, statsMtx, tpc, stopc, dt, byEP, lastByEP,
                   cursorHidden, screen, shown, prevSnap, totalTxs,
                   readCounts>>

\* part_004 lines 56-60 and part_003 lines 301-435: in TUI mode the
\* cursor is hidden, the screen cleared and the render goroutine started;
\* stopTUI is deferred
MainStartTUI ==
    /\ mpc = "tui"
    /\ IF tuiMode
         THEN /\ cursorHidden' = TRUE
              /\ screen' = "cleared"
              /\ tpc' = "select"
              /\ tuiOn' = TRUE
         ELSE UNCHANGED <<cursorHidden, screen, tpc, tuiOn>>
    /\ mpc' = "trap"
    /\ UNCHANGED <<extVars, genVars, seedVars, facVars, drvVars, urlVars,
                   stopVars, tcfg, stopRet, ret, trap, printed, tgState,
                   txCounts, statsMtx, stopc, dt, byEP, lastByEP, shown,
                   prevSnap, totalTxs, readCounts>>

\* part_004 lines 62-69: the interrupt trap is installed unless
\* cfg.NoTrapInterrupts; close(cancelTrap) is deferred
MainTrap ==
    /\ mpc = "trap"
    /\ trap' = IF tcfg.NoTrapInterrupts THEN "none" ELSE "installed"
    /\ mpc' = "wait"
    /\ UNCHANGED <<extVars, genVars, seedVars, facVars, drvVars, urlVars,
                   stopVars, tcfg, stopRet, ret, tuiOn, printed, tgState,
                   txCounts, statsMtx, tpc, stopc, dt, byEP, lastByEP,
                   cursorHidden, screen, shown, prevSnap, totalTxs,
                   readCounts>>

\* the load test runs to its end
LoadTestFinish ==
    /\ tgState = "running"
    /\ tgState' = "finished"
    /\ UNCHANGED <<extVars, genVars, seedVars, facVars, drvVars, urlVars,
                   stopVars, tcfg, mpc, stopRet, ret, tuiOn, trap, printed,
                   txCounts, statsMtx, tpc, stopc, dt, byEP, lastByEP,
                   cursorHidden, screen, shown, prevSnap, totalTxs,
                   readCounts>>

\* a transactor fails
LoadTestFail ==
    /\ tgState = "running"
    /\ tgState' = "failed"
    /\ UNCHANGED <<extVars, genVars, seedVars, facVars, drvVars, urlVars,
                   stopVars, tcfg, mpc, stopRet, ret, tuiOn, trap, printed,
                   txCounts, statsMtx, tpc, stopc, dt, byEP, lastByEP,
                   cursorHidden, screen, shown, prevSnap, totalTxs,
                   readCounts>>

\* an interrupt arrives while the trap is installed: the trap's goroutine
\* calls tg.Cancel()
TrapInterrupt ==
    /\ trap = "installed"
    /\ tgState = "running"
    /\ trap' = "fired"
    /\ tgState' = "cancelled"
    /\ UNCHANGED <<extVars, genVars, seedVars, facVars, drvVars, urlVars,
                   stopVars, tcfg, mpc, stopRet, ret, tuiOn, printed, txCounts,
                   statsMtx, tpc, stopc, dt, byEP, lastByEP, cursorHidden,
                   screen, shown, prevSnap, totalTxs, readCounts>>

\* part_004 line 71: tg.Wait() returns nil
MainWaitOk ==
    /\ mpc = "wait"
    /\ tgState \in {"finished", "cancelled"}
    /\ mpc' = "stats"
    /\ UNCHANGED <<extVars, genVars, seedVars, facVars, drvVars, urlVars,
                   stopVars, tcfg, stopRet, ret, tuiOn, trap, printed, tgState,
                   txCounts, statsMtx, tpc, stopc, dt, byEP, lastByEP,
                   cursorHidden, screen, shown, prevSnap, totalTxs,
                   readCounts>>

\* part_004 lines 71-74: tg.Wait() returns an error; stopTUI() is called
\* when there is a display
MainWaitErr ==
    /\ mpc = "wait"
    /\ tgState \in {"failed", "cancelled"}
    /\ IF tuiOn
         THEN mpc' = "stop" /\ stopRet' = "errPrint"
         ELSE mpc' = "errPrint" /\ UNCHANGED stopRet
    /\ UNCHANGED <<extVars, genVars, seedVars, facVars, drvVars, urlVars,
                   stopVars, tcfg, ret, tuiOn, trap, printed, tgState,
                   txCounts, statsMtx, tpc, stopc, dt, byEP, lastByEP,
                   cursorHidden, screen, shown, prevSnap, totalTxs,
                   readCounts>>

\* part_004 lines 75-80: the error of the load test is printed to stderr
\* in TUI mode (logged otherwise) and returned
MainPrintError ==
    /\ mpc = "errPrint"
    /\ IF tuiMode
         THEN /\ printed' = printed \cup
                    {[msg |-> "loadtest", tuiStopped |-> RenderExited]}
              /\ screen' = "message"
         ELSE UNCHANGED <<printed, screen>>
    /\ ret' = "err"
    /\ mpc' = "defers"
    /\ UNCHANGED <<extVars, genVars, seedVars, facVars, drvVars, urlVars,
                   stopVars, tcfg, stopRet, tuiOn, trap, tgState, txCounts,
                   statsMtx, tpc, stopc, dt, byEP, lastByEP, cursorHidden,
                   shown, prevSnap, totalTxs, readCounts>>

\* part_004 lines 84-101: no statistics file is asked for, or it is
\* written; nil is returned
MainStatsOk ==
    /\ mpc = "stats"
    /\ ret' = "nil"
    /\ mpc' = "defers"
    /\ UNCHANGED <<extVars, genVars, seedVars, facVars, drvVars, urlVars,
                   stopVars, tcfg, stopRet, tuiOn, trap, printed, tgState,
                   txCounts, statsMtx, tpc, stopc, dt, byEP, lastByEP,
                   cursorHidden, screen, shown, prevSnap, totalTxs,
                   readCounts>>

\* part_004 lines 84-96: writing the statistics fails; the error is
\* printed to stderr in TUI mode (logged otherwise) and returned
MainStatsFail ==
    /\ mpc = "stats"
    /\ tcfg.StatsOutputFile
    /\ IF tuiMode
         THEN /\ printed' = printed \cup
                    {[msg |-> "stats", tuiStopped |-> RenderExited]}
              /\ screen' = "message"
         ELSE UNCHANGED <<printed, screen>>
    /\ ret' = "err"
    /\ mpc' = "defers"
    /\ UNCHANGED <<extVars, genVars, seedVars, facVars, drvVars, urlVars,
                   stopVars, tcfg, stopRet, tuiOn, trap, tgState, txCounts,
                   statsMtx, tpc, stopc, dt, byEP, lastByEP, cursorHidden,
                   shown, prevSnap, totalTxs, readCounts>>

\* mutation: stopTUI is not deferred
DeferredStop_Missing(on) == FALSE

\* part_004 line 59: whether stopTUI() runs when ExecuteStandalone returns
DeferredStop(on) == on

\* the deferred calls run, last registered first: close(cancelTrap) of
\* line 68, then stopTUI() of line 59
MainDefers ==
    /\ mpc = "defers"
    /\ trap' = IF trap = "none" THEN "none" ELSE "cancelled"
    /\ IF DeferredStop(tuiOn)
         THEN mpc' = "stop" /\ stopRet' = "returned"
         ELSE mpc' = "returned" /\ UNCHANGED stopRet
    /\ UNCHANGED <<extVars, genVars, seedVars, facVars, drvVars, urlVars,
                   stopVars, tcfg, ret, tuiOn, printed, tgState, txCounts,
                   statsMtx, tpc, stopc, dt, byEP, lastByEP, cursorHidden,
                   screen, shown, prevSnap, totalTxs, readCounts>>

\* mutation: stopTUI closes stopc without looking whether it is closed
CloseStopc_NoSelect(closed) ==
    IF closed THEN "panic" ELSE "close"

\* part_003 lines 438-443: the select of stopTUI takes the receive from
\* stopc when it is closed and closes it otherwise; close of a closed
\* channel would panic
CloseStopc(closed) ==
    IF closed THEN "skip" ELSE "close"

\* part_003 lines 438-443: stopTUI closes stopc unless it is closed
StopSignal ==
    /\ mpc = "stop"
    /\ IF CloseStopc(stopc) = "panic"
         THEN mpc' = "panic" /\ UNCHANGED stopc
         ELSE /\ stopc' = (stopc \/ CloseStopc(stopc) = "close")
              /\ mpc' = "stopWait"
    /\ UNCHANGED <<extVars, genVars, seedVars, facVars, drvVars, urlVars,
                   stopVars, tcfg, stopRet, ret, tuiOn, trap, printed, tgState,
                   txCounts, statsMtx, tpc, dt, byEP, lastByEP, cursorHidden,
                   screen, shown, prevSnap, totalTxs, readCounts>>

\* part_003 lines 444-447: stopTUI waits for the goroutine to exit, then
\* clears the screen and shows the cursor
StopRestore ==
    /\ mpc = "stopWait"
    /\ tpc = "exited"
    /\ screen' = "cleared"
    /\ cursorHidden' = FALSE
    /\ mpc' = stopRet
    /\ UNCHANGED <<extVars, genVars, seedVars, facVars, drvVars, urlVars,
                   stopVars, tcfg, stopRet, ret, tuiOn, trap, printed, tgState,
                   txCounts, statsMtx, tpc, stopc, dt, byEP, lastByEP, shown,
                   prevSnap, totalTxs, readCounts>>

\* part_003 lines 327-342: the ticker fires; dt is taken and
\* tg.statsMtx.RLock() succeeds, which it does while no writer holds it
RenderTick ==
    /\ tpc = "select"
    /\ statsMtx.writers = {}
    /\ \E d \in 0..MaxDt : dt' = ElapsedSeconds(d)
    /\ statsMtx' = [statsMtx EXCEPT !.readers = @ \cup {RenderGoroutine}]
    /\ tpc' = "locked"
    /\ UNCHANGED <<extVars, genVars, seedVars, facVars, drvVars, urlVars,
                   stopVars, tcfg, mpc, stopRet, ret, tuiOn, trap, printed,
                   tgState, txCounts, stopc, byEP, lastByEP, cursorHidden,
                   screen, shown, prevSnap, totalTxs, readCounts>>

\* mutation: RUnlock is deferred to the end of the tick
RenderSnapshot_HoldLock ==
    /\ tpc = "locked"
    /\ byEP' = Aggregate(txCounts)
    /\ prevSnap' = byEP
    /\ tpc' = "draw"
    /\ readCounts' = txCounts
    /\ UNCHANGED <<extVars, genVars, seedVars, facVars, drvVars, urlVars,
                   stopVars, tcfg, mpc, stopRet, ret, tuiOn, trap, printed,
                   tgState, txCounts, statsMtx, stopc, dt, lastByEP,
                   cursorHidden, screen, shown, totalTxs>>

\* part_003 lines 343-358: the counters are copied and aggregated by
\* endpoint, then tg.statsMtx.RUnlock()
RenderSnapshot ==
    /\ tpc = "locked"
    /\ byEP' = Aggregate(txCounts)
    /\ prevSnap' = byEP
    /\ statsMtx' = [statsMtx EXCEPT !.readers = @ \ {RenderGoroutine}]
    /\ tpc' = "draw"
    /\ readCounts' = txCounts
    /\ UNCHANGED <<extVars, genVars, seedVars, facVars, drvVars, urlVars,
                   stopVars, tcfg, mpc, stopRet, ret, tuiOn, trap, printed,
                   tgState, txCounts, stopc, dt, lastByEP, cursorHidden,
                   screen, shown, totalTxs>>

\* part_003 lines 360-418: the totals and rates are computed and the
\* table is written over a cleared screen
RenderDraw ==
    /\ tpc = "draw"
    /\ shown' = RatesOf(byEP, lastByEP, dt)
    /\ screen' = "table"
    /\ tpc' = "update"
    /\ totalTxs' = TotalTxs(byEP)
    /\ UNCHANGED <<extVars, genVars, seedVars, facVars, drvVars, urlVars,
                   stopVars, tcfg, mpc, stopRet, ret, tuiOn, trap, printed,
                   tgState, txCounts, statsMtx, stopc, dt, byEP, lastByEP,
                   cursorHidden, prevSnap, readCounts>>

\* part_003 lines 420-429: the last snapshot becomes the current one
RenderUpdate ==
    /\ tpc = "update"
    /\ lastByEP' = byEP
    /\ tpc' = "select"
    /\ UNCHANGED <<extVars, genVars, seedVars, facVars, drvVars, urlVars,
                   stopVars, tcfg, mpc, stopRet, ret, tuiOn, trap, printed,
                   tgState, txCounts, statsMtx, stopc, dt, byEP, cursorHidden,
                   screen, shown, prevSnap, totalTxs, readCounts>>

\* part_003 lines 431-432 and 323: stopc is closed, the goroutine
\* returns and closes stopped
RenderStop ==
    /\ tpc = "select"
    /\ stopc
    /\ tpc' = "exited"
    /\ UNCHANGED <<extVars, genVars, seedVars, facVars, drvVars, urlVars,
                   stopVars, tcfg, mpc, stopRet, ret, tuiOn, trap, printed,
                   tgState, txCounts, statsMtx, stopc, dt, byEP, lastByEP,
                   cursorHidden, screen, shown, prevSnap, totalTxs,
                   readCounts>>

\* the counter of transactor t, 0 before its first report
TxCount(counts, t) == IF t \in DOMAIN counts THEN counts[t] ELSE 0

\* a transactor takes tg.statsMtx.Lock() to report a sent transaction
ProducerLock(t) ==
    /\ tgState = "running"
    /\ statsMtx.readers = {} /\ statsMtx.writers = {}
    /\ TxCount(txCounts, t) < MaxTx
    /\ statsMtx' = [statsMtx EXCEPT !.writers = {Producer(t)}]
    /\ UNCHANGED <<extVars, genVars, seedVars, facVars, drvVars, urlVars,
                   stopVars, tcfg, mpc, stopRet, ret, tuiOn, trap, printed,
                   tgState, txCounts, tpc, stopc, dt, byEP, lastByEP,
                   cursorHidden, screen, shown, prevSnap, totalTxs,
                   readCounts>>

\* the transactor adds to its counter and unlocks
ProducerUpdate(t) ==
    /\ Producer(t) \in statsMtx.writers
    /\ txCounts' = [id \in DOMAIN txCounts \cup {t} |->
                      IF id = t THEN TxCount(txCounts, t) + 1
                                ELSE txCounts[id]]
    /\ statsMtx' = [statsMtx EXCEPT !.writers = {}]
    /\ UNCHANGED <<extVars, genVars, seedVars, facVars, drvVars, urlVars,
                   stopVars, tcfg, mpc, stopRet, ret, tuiOn, trap, printed,
                   tgState, tpc, stopc, dt, byEP, lastByEP, cursorHidden,
                   screen, shown, prevSnap, totalTxs, readCounts>>

\* ExecuteStandalone, the group and the display, without the counters
TuiNext ==
    \/ MainSetupFail
    \/ MainStart
    \/ MainStartTUI
    \/ MainTrap
    \/ LoadTestFinish
    \/ LoadTestFail
    \/ TrapInterrupt
    \/ MainWaitOk
    \/ MainWaitErr
    \/ MainPrintError
    \/ MainStatsOk
    \/ MainStatsFail
    \/ MainDefers
    \/ StopSignal
    \/ StopRestore
    \/ RenderTick
    \/ RenderSnapshot
    \/ RenderDraw
    \/ RenderUpdate
    \/ RenderStop

\* the display while the load test runs and the transactors report
RatesNext ==
    \/ RenderTick
    \/ RenderSnapshot
    \/ RenderDraw
    \/ RenderUpdate
    \/ \E t \in Transactors : ProducerLock(t)
    \/ \E t \in Transactors : ProducerUpdate(t)

\* ------------------------------------------ interrupt of the seed run
\* the configuration of the interrupted run: the most workers, in
\* batches smaller than their number
StopConfigs ==
    {c \in SizeConfigs : c.Workers = MaxWorkers /\ c.BatchSize = MaxBatchSize}
\* no signal was delivered
NoSignal == [raised |-> FALSE, batches |-> 0, inFlight |-> FALSE]
\* BroadcastTx of lines 485-488 was called and has not returned
BroadcastInFlight == spc = "broadcast"

\* SIGINT or SIGTERM is delivered to the seed process while
\* seedAccounts runs: Run installs no handler and seedAccounts takes no
\* context, so the Go runtime ends the process at once, in whatever call
\* it is
Interrupt ==
    /\ ~stopSig.raised
    /\ spc # "done"
    /\ stopSig' = [raised |-> TRUE, batches |-> Len(batches),
                   inFlight |-> BroadcastInFlight]
    /\ Return("killed")
    /\ UNCHANGED <<extVars, genVars, facVars, drvVars, urlVars, tuiVars, cfg,
                   restLatency, seedAddr, failedQ, run, chainSeedBalance,
                   chainSeedAcc, chainBal, seedBalance, seedAccountNum,
                   seedSequence, needsFunding, idx, i, currentSeq, elapsed,
                   allFunded, batches, accQueries>>

\* ---------------------------------------------------- the benchmark run
\* the one goroutine AddAll calls NewClient from
EngineCall == 1

\* mutation: the script seeds one account per connection of one endpoint
SeedWorkers_PerEndpoint(c, e) == c

\* run_benchmark.sh line 486: SEED_WORKERS=$((WORKERS * ENDPOINT_COUNT))
SeedWorkers(c, e) == c * e

\* seed.go lines 329-338: the accounts a run with --workers w derives
SeededAccounts(w) == {BenchAddr(k) : k \in 0..(w - 1)}

\* AddAll adds cfg.Connections transactors for each of cfg.Endpoints
TransactorCount(c, e) == c * e

BenchInit ==
    /\ bconn \in 1..MaxConnections
    /\ bendp \in 1..MaxEndpoints
    /\ bpc = "seed"
    /\ bseeded = {}
    /\ bmade = 0
    /\ bclients = {}

\* run_benchmark.sh lines 481-520: the seeder is run with
\* --workers SEED_WORKERS before the load test is started
BenchSeed ==
    /\ bpc = "seed"
    /\ bseeded' = SeededAccounts(SeedWorkers(bconn, bendp))
    /\ bpc' = "addall"
    /\ UNCHANGED <<genVars, seedVars, facVars, drvVars, urlVars, tuiVars,
                   stopVars, pollVars, validVars, bconn, bendp, bmade,
                   bclients>>

\* tg.AddAll(&cfg) of ExecuteStandalone: the next transactor is made and
\* asks the factory for its client
AddAllCall ==
    /\ bpc = "addall"
    /\ bmade < TransactorCount(bconn, bendp)
    /\ bpc' = "call"
    /\ fpc' = [fpc EXCEPT ![EngineCall] = "idle"]
    /\ fret' = [fret EXCEPT ![EngineCall] = "none"]
    /\ fid' = [fid EXCEPT ![EngineCall] = NoSeq]
    /\ fstrategy' = [fstrategy EXCEPT ![EngineCall] = NoStrategy]
    /\ fclient' = [fclient EXCEPT ![EngineCall] = NoClient]
    /\ UNCHANGED <<genVars, seedVars, drvVars, urlVars, tuiVars, stopVars,
                   pollVars, validVars, env, sargs, sres, workerCounter, fmsg,
                   bconn, bendp, bseeded, bmade, bclients>>

\* NewClient has returned: its client is kept, or its error ends AddAll
\* and with it ExecuteStandalone
AddAllCollect ==
    /\ bpc = "call"
    /\ fpc[EngineCall] = "done"
    /\ IF fret[EngineCall] = "ok"
         THEN /\ bclients' = bclients \cup {fclient[EngineCall]}
              /\ bmade' = bmade + 1
              /\ bpc' = "addall"
         ELSE /\ bpc' = "failed"
              /\ UNCHANGED <<bclients, bmade>>
    /\ UNCHANGED <<genVars, seedVars, facVars, drvVars, urlVars, tuiVars,
                   stopVars, pollVars, validVars, bconn, bendp, bseeded>>

\* every transactor is added: tg.Start()
AddAllDone ==
    /\ bpc = "addall"
    /\ bmade = TransactorCount(bconn, bendp)
    /\ bpc' = "started"
    /\ UNCHANGED <<genVars, seedVars, facVars, drvVars, urlVars, tuiVars,
                   stopVars, pollVars, validVars, bconn, bendp, bseeded, bmade,
                   bclients>>

BenchNext ==
    \/ BenchSeed
    \/ AddAllCall
    \/ NewClientStrategy(EngineCall)
    \/ NewClientAssign(EngineCall)
    \/ NewClientConstruct(EngineCall)
    \/ AddAllCollect
    \/ AddAllDone

\* ----------------------------------------------- the configuration check
\* the configurations the load test can be started with: --connections,
\* --time and --count as given, and the number of --endpoints
LoadConfigs ==
    [Connections : (-1)..MaxConnections, Time : (-1)..MaxTime,
     Count : (-1)..MaxCount, Endpoints : 0..MaxEndpoints]

\* mutation: both --time and --count are required
ValidateConfig_TimeAndCount(c) ==
    IF c.Connections <= 0 THEN "errConnections"
    ELSE IF c.Time <= 0 \/ c.Count <= 0 THEN "errTimeOrCount"
    ELSE IF c.Endpoints = 0 THEN "errEndpoints"
    ELSE "nil"

\* factory.go lines 28-39: ValidateConfig
ValidateConfig(c) ==
    IF c.Connections <= 0 THEN "errConnections"
    ELSE IF c.Time <= 0 /\ c.Count <= 0 THEN "errTimeOrCount"
    ELSE IF c.Endpoints = 0 THEN "errEndpoints"
    ELSE "nil"

ValidInit ==
    /\ vcfg \in LoadConfigs
    /\ vret = "none"

\* f.ValidateConfig(cfg) is called and returns: cfg is its own copy and
\* it assigns to no field of f
ValidateConfigCall ==
    /\ vret = "none"
    /\ vret' = ValidateConfig(vcfg)
    /\ UNCHANGED <<genVars, seedVars, facVars, drvVars, urlVars, tuiVars,
                   stopVars, benchVars, pollVars, vcfg>>

\* ------------------------------------------------------ specifications
\* no benchmark run
BenchIdle ==
    /\ bconn = 1
    /\ bendp = 1
    /\ bpc = "none"
    /\ bseeded = {}
    /\ bmade = 0
    /\ bclients = {}

\* the status queries of a node that answers 404 until the transaction
\* is in a block
PollIdle ==
    /\ statusAnswers = PlainResponses
    /\ txStatusResp = NoResp

\* no configuration is checked
ValidIdle ==
    /\ vcfg = [Connections |-> 1, Time |-> 1, Count |-> 0, Endpoints |-> 1]
    /\ vret = "none"

\* no benchmark run, a plain node, no configuration check
ExtIdle == BenchIdle /\ PollIdle /\ ValidIdle

\* no signal is delivered
StopIdle == stopSig = NoSignal

\* no standalone run
TuiIdle ==
    /\ TuiInitOver({[UI |-> "plain", NoTrapInterrupts |-> TRUE,
                     StatsOutputFile |-> FALSE]})

\* no account is derived for comparison
DrvIdle ==
    /\ dpair = <<0, 1>>
    /\ caddr = NoAddrs
    /\ baddr = NoAddrs

\* no REST base URL is derived for comparison
UrlIdle ==
    /\ endpoint = DefaultRpcEndpoint
    /\ rpc = DefaultRpcEndpoint
    /\ clientRest = NoUrl
    /\ seedRest = NoUrl

\* nothing outside the generator, the funding run and the factory acts
AuxIdle == DrvIdle /\ UrlIdle /\ TuiIdle /\ StopIdle /\ ExtIdle

\* no NewClient call is running, in one of the environments E
FacIdleOver(E) ==
    /\ env \in E
    /\ sargs = [chainID |-> "", denom |-> "", sinkAddr |-> EmptyAddr]
    /\ sres = [err |-> "pending", strategy |-> NoStrategy]
    /\ workerCounter = 0
    /\ fpc = [g \in FactoryCalls |-> "done"]
    /\ fret = [g \in FactoryCalls |-> "none"]
    /\ fstrategy = [g \in FactoryCalls |-> NoStrategy]
    /\ fid = [g \in FactoryCalls |-> NoSeq]
    /\ fclient = [g \in FactoryCalls |-> NoClient]
    /\ fmsg = [g \in FactoryCalls |-> [err |-> "pending", msg |-> NoMsg]]

\* no factory is used
FacIdle ==
    FacIdleOver({[chainID |-> "", denom |-> "", sinkAddr |-> EmptyAddr]})

\* the load-test process: no seeding run
SeedIdle ==
    /\ cfg = [Workers |-> 1, BatchSize |-> 1, FundAmount |-> 1,
              SeedPrivateKey |-> EmptyString, SeedKey |-> Alice]
    /\ restLatency = SlowNode
    /\ run = "first"
    /\ seedAddr = NoAddr
    /\ failedQ = {}
    /\ chainSeedBalance = 0
    /\ chainSeedAcc = [number |-> 0, sequence |-> 0]
    /\ chainBal = [a \in {0} |-> 0]
    /\ spc = "done"
    /\ seedBalance = NoBalance
    /\ seedAccountNum = 0
    /\ seedSequence = 0
    /\ needsFunding = <<>>
    /\ idx = 0
    /\ i = 0
    /\ currentSeq = 0
    /\ elapsed = 0
    /\ allFunded = TRUE
    /\ result = "none"
    /\ batches = <<>>
    /\ accQueries = 0

\* the seed process: no generator is called
GenIdle ==
    /\ GenInit
    /\ \A w \in GenWorkers : ledgerAcc[w].exists

InitGen == SeedIdle /\ FacIdle /\ AuxIdle /\ GenInit
NextGen == GenNext
SpecGen == InitGen /\ [][NextGen]_vars

\* the generator that is called concurrently, with calls that are
\* scheduled: the goroutine of a call runs on when it can, Lock() returns
\* once the mutex is free for good, and the account query answers or
\* times out (Timeout of line 153)
InitGenLive == InitGen
NextGenLive == \E c \in Calls : CallStep(1, c)
SpecGenLive ==
    /\ InitGenLive
    /\ [][NextGenLive]_vars
    /\ \A c \in Calls : WF_vars(CallStep(1, c))

InitSeed == GenIdle /\ FacIdle /\ AuxIdle /\ SeedInit
NextSeed == SeedNext
SpecSeed == InitSeed /\ [][NextSeed]_vars

\* the seed process over the identities it can be given; every status
\* request of the confirmation poll returns and the loop goes on to its
\* next check or to its timeout
InitSeedKey ==
    GenIdle /\ FacIdle /\ AuxIdle /\ SeedInitOver(KeyConfigs, RequestDurations)
NextSeedKey == SeedNext
SpecSeedKey ==
    InitSeedKey /\ [][NextSeedKey]_vars /\ WF_vars(PollPending \/ PollTimeout)

\* the load-test process creating its clients: NewClient is called from
\* concurrent goroutines
InitFactory == GenIdle /\ SeedIdle /\ AuxIdle /\ FacInit
NextFactory == FacNext
SpecFactory == InitFactory /\ [][NextFactory]_vars

\* the derivation of the accounts of two workers, by the client and by
\* the seeder
InitDerive ==
    /\ GenIdle /\ SeedIdle /\ FacIdle /\ UrlIdle /\ TuiIdle /\ StopIdle
    /\ ExtIdle
    /\ DrvInit
NextDerive == DrvNext
SpecDerive == InitDerive /\ [][NextDerive]_vars

\* the REST base URL of one node, derived by the client and by the seeder
InitUrl ==
    /\ GenIdle /\ SeedIdle /\ FacIdle /\ DrvIdle /\ TuiIdle /\ StopIdle
    /\ ExtIdle
    /\ UrlInit
NextUrl == UrlNext
SpecUrl == InitUrl /\ [][NextUrl]_vars

\* a standalone run from its start to its return
InitTui ==
    /\ GenIdle /\ SeedIdle /\ FacIdle /\ DrvIdle /\ UrlIdle /\ StopIdle
    /\ ExtIdle
    /\ TuiInit
NextTui == TuiNext
SpecTui == InitTui /\ [][NextTui]_vars

\* a standalone run whose goroutines are scheduled: stopTUI and the
\* render goroutine run on when they can, and the select of the render
\* goroutine takes the closed stopc when it finds it ready again and
\* again
SpecTuiLive ==
    /\ InitTui
    /\ [][NextTui]_vars
    /\ WF_vars(StopSignal \/ StopRestore)
    /\ WF_vars(RenderSnapshot \/ RenderDraw \/ RenderUpdate)
    /\ SF_vars(RenderStop)

\* the display of a running load test in TUI mode: ExecuteStandalone is
\* in tg.Wait()
RatesInitOver(M) ==
    /\ tcfg = [UI |-> "tui", NoTrapInterrupts |-> FALSE,
               StatsOutputFile |-> TRUE]
    /\ mpc = "wait"
    /\ stopRet = "none"
    /\ ret = "none"
    /\ tuiOn = TRUE
    /\ trap = IF tcfg.NoTrapInterrupts THEN "none" ELSE "installed"
    /\ printed = {}
    /\ tgState = "running"
    /\ txCounts \in M
    /\ statsMtx = [readers |-> {}, writers |-> {}]
    /\ tpc = "select"
    /\ stopc = FALSE
    /\ dt = 0
    /\ byEP = EmptyMap
    /\ lastByEP = EmptyMap
    /\ cursorHidden = TRUE
    /\ screen = "cleared"
    /\ shown = EmptyMap
    /\ prevSnap = EmptyMap
    /\ totalTxs = 0
    /\ readCounts = EmptyMap
RatesInit == RatesInitOver({EmptyMap})
InitRates ==
    /\ RatesInit
    /\ GenIdle /\ SeedIdle /\ FacIdle /\ DrvIdle /\ UrlIdle /\ StopIdle
    /\ ExtIdle
NextRates == RatesNext
SpecRates == InitRates /\ [][NextRates]_vars

\* the display of a group that has counters when the display starts,
\* some of them under ids that are not in tg.transactors
InitSnapshot ==
    /\ GenIdle /\ SeedIdle /\ FacIdle /\ DrvIdle /\ UrlIdle /\ StopIdle
    /\ ExtIdle
    /\ RatesInitOver(CounterMaps)
\* the display while the first transactor goes on reporting
NextSnapshot ==
    \/ RenderTick
    \/ RenderSnapshot
    \/ RenderDraw
    \/ RenderUpdate
    \/ ProducerLock(0)
    \/ ProducerUpdate(0)
SpecSnapshot == InitSnapshot /\ [][NextSnapshot]_vars

\* a factory whose configuration is checked before, between or after the
\* steps of a NewClient
InitValidate ==
    /\ GenIdle /\ SeedIdle /\ DrvIdle /\ UrlIdle /\ TuiIdle /\ StopIdle
    /\ BenchIdle /\ PollIdle
    /\ FacInit
    /\ sargs = NoStrategy
    /\ ValidInit
NextValidate ==
    \/ ValidateConfigCall
    \/ NewClientStrategy(EngineCall)
    \/ NewClientAssign(EngineCall)
    \/ NewClientConstruct(EngineCall)
SpecValidate == InitValidate /\ [][NextValidate]_vars

\* a seeding run that can be interrupted
InitSeedStop ==
    /\ GenIdle /\ FacIdle /\ DrvIdle /\ UrlIdle /\ TuiIdle /\ StopIdle
    /\ ExtIdle
    /\ SeedInitOver(StopConfigs, SlowNode)
NextSeedStop == SeedNext \/ Interrupt
SpecSeedStop == InitSeedStop /\ [][NextSeedStop]_vars

\* seeding runs with every kind of batch size
InitSeedBatch ==
    /\ GenIdle /\ FacIdle /\ AuxIdle
    /\ SeedInitOver(BatchConfigs, SlowNode)
NextSeedBatch == SeedNext \/ BuildBatchPanic \/ BroadcastAcceptedPanic
SpecSeedBatch == InitSeedBatch /\ [][NextSeedBatch]_vars

\* a seeding run against a node whose status queries can fail in every
\* way
InitSeedPoll ==
    /\ GenIdle /\ FacIdle /\ DrvIdle /\ UrlIdle /\ TuiIdle /\ StopIdle
    /\ BenchIdle /\ ValidIdle
    /\ statusAnswers = StatusResponses
    /\ txStatusResp = NoResp
    /\ SeedInitOver(PollConfigs, SlowNode)
NextSeedPoll == SeedNext
SpecSeedPoll == InitSeedPoll /\ [][NextSeedPoll]_vars

\* concurrent NewClient calls on one factory in an environment that
\* changes, so that some calls are rejected and others are not
InitFactoryEnv ==
    /\ GenIdle /\ SeedIdle /\ AuxIdle
    /\ FacInit
    /\ sargs = NoStrategy
NextFactoryEnv ==
    \/ Setenv
    \/ \E g \in FactoryCalls :
        \/ NewClientStrategy(g)
        \/ NewClientAssign(g)
        \/ NewClientConstruct(g)
SpecFactoryEnv == InitFactoryEnv /\ [][NextFactoryEnv]_vars

\* a run of the benchmark script: the seeder, then the load test adding
\* its transactors one after the other
InitBench ==
    /\ GenIdle /\ SeedIdle /\ DrvIdle /\ UrlIdle /\ TuiIdle /\ StopIdle
    /\ PollIdle /\ ValidIdle
    /\ FacIdleOver(Environments)
    /\ BenchInit
NextBench == BenchNext
SpecBench == InitBench /\ [][NextBench]_vars

\* ----------------------------------------------- properties, generator
\* the calls of generator w that have reserved a sequence value
ReservedCalls(w) == {c \in CallsOf(w) : gseq[w][c] # NoSeq}
\* the sequence values handed out by generator w
ReservedSeqs(w) == {gseq[w][c] : c \in ReservedCalls(w)}
\* the calls of generator w whose account query is in flight
InFlight(w) == {c \in CallsOf(w) : gpc[w][c] = "query"}

\* C1: for a generator resolved with starting sequence s0, the calls that
\* have reserved so far, in any interleaving, hold exactly the values
\* s0 .. s0+k-1 (k = number of such calls): no value twice, none skipped;
\* nothing is reserved before the resolution.
C1_ExactRange ==
    \A w \in GenWorkers :
        LET k == Cardinality(ReservedCalls(w))
            s0 == ledgerAcc[w].sequence
        IN /\ (~accountQueried[w] => k = 0)
           /\ ReservedSeqs(w) = s0 .. (s0 + k - 1)
           /\ \A c, d \in ReservedCalls(w) :
                  c # d => gseq[w][c] # gseq[w][d]

\* all calls of the first generator are past the reservation at once
C1_Witness ==
    /\ MaxCalls >= 3
    /\ \A c \in CallsOf(1) : gpc[1][c] = "build"

\* C2: the value reserved by a call that failed afterwards stays consumed:
\* it lies below the counter (so no later reservation returns it) and no
\* other call holds it.
C2_FailedStaysConsumed ==
    \A w \in GenWorkers : \A c \in CallsOf(w) :
        gret[w][c] = "errBuild" =>
            /\ gseq[w][c] # NoSeq
            /\ gseq[w][c] < sequence[w]
            /\ \A d \in CallsOf(w) \ {c} : gseq[w][d] # gseq[w][c]

\* a call failed after reserving and a later call reserved behind it
C2_Witness ==
    \E c, d \in CallsOf(1) :
        /\ gret[1][c] = "errBuild"
        /\ gpc[1][d] = "build"
        /\ gseq[1][d] = gseq[1][c] + 1

\* C3: the counter never decreases; once the account is resolved the
\* account number and the resolved flag never change again and the counter
\* moves only by +1; before that the only write is the resolution itself,
\* which stores the ledger's values.
C3_Step ==
    \A w \in GenWorkers :
        /\ sequence'[w] >= sequence[w]
        /\ accountQueried[w] =>
              /\ accountQueried'[w]
              /\ accountNum'[w] = accountNum[w]
              /\ sequence'[w] \in {sequence[w], sequence[w] + 1}
        /\ ~accountQueried[w] =>
              \/ /\ ~accountQueried'[w]
                 /\ accountNum'[w] = accountNum[w]
                 /\ sequence'[w] = sequence[w]
              \/ /\ accountQueried'[w]
                 /\ accountNum'[w] = ledgerAcc[w].number
                 /\ sequence'[w] = ledgerAcc[w].sequence
C3_InitializedOnce == [][C3_Step]_vars

\* a resolved generator that has advanced twice with a call still to come
C3_Witness ==
    /\ accountQueried[1]
    /\ sequence[1] = ledgerAcc[1].sequence + 2
    /\ \E c \in CallsOf(1) : gpc[1][c] = "idle"

\* C4 (as stated): concurrent calls on an unresolved generator issue one
\* account query in total, all callers but the first proceed without
\* querying.
C4_SingleQuery ==
    \A w \in GenWorkers : queries[w] <= 1

\* C4 (amended): at most one account query is in flight per generator, it
\* is issued by the holder of the mutex on an unresolved generator, and a
\* resolved generator has no query in flight (none is issued after a
\* successful resolution).
C4_OneInFlight ==
    \A w \in GenWorkers :
        /\ Cardinality(InFlight(w)) <= 1
        /\ \A c \in InFlight(w) : accountQueryMtx[w] = c /\ ~accountQueried[w]
        /\ InFlight(w) = {} => accountQueryMtx[w] = Free

\* a query is in flight while the other calls have not passed the lock,
\* after an earlier query of the same generator failed
C4_Witness ==
    /\ Cardinality(InFlight(1)) = 1
    /\ queries[1] = 2
    /\ \E c \in CallsOf(1) : gpc[1][c] = "idle"

\* C5: a call that returns the account-not-found error has reserved
\* nothing, and the step in which it returns leaves the counter, the
\* account number and the resolved flag as they were at construction; on
\* an account the ledger does not know every finished call returned that
\* error.
C5_State ==
    \A w \in GenWorkers : \A c \in CallsOf(w) :
        /\ gret[w][c] = "errAccountNotFound" => gseq[w][c] = NoSeq
        /\ ~ledgerAcc[w].exists =>
              /\ gpc[w][c] = "done" => gret[w][c] = "errAccountNotFound"
              /\ ~accountQueried[w] /\ sequence[w] = 0 /\ accountNum[w] = 0
C5_Step ==
    \A w \in GenWorkers : \A c \in CallsOf(w) :
        (gret[w][c] = "none" /\ gret'[w][c] = "errAccountNotFound") =>
            /\ sequence'[w] = sequence[w] /\ sequence[w] = 0
            /\ accountNum'[w] = accountNum[w] /\ accountNum[w] = 0
            /\ accountQueried'[w] = accountQueried[w] /\ ~accountQueried[w]
C5_NotFoundNoAdvance == []C5_State /\ [][C5_Step]_vars

\* the first call on an unseeded account has returned account-not-found
C5_Witness ==
    /\ ~ledgerAcc[1].exists
    /\ queries[1] = 1
    /\ \E c \in CallsOf(1) : gret[1][c] = "errAccountNotFound"

\* ----------------------------------------- properties, funding planner
Terminal == {"Confirmed", "Failed", "TimedOut"}
\* the batches that were handed to the node
BroadcastBatches ==
    {k \in 1..Len(batches) :
        \E j \in 1..Len(batches[k].hist) : batches[k].hist[j] = "Broadcast"}
\* the batches seen in a block with code 0
ConfirmedBatches ==
    {k \in 1..Len(batches) : StatusOf(batches[k]) = "Confirmed"}
\* the batches that failed or timed out
FailedBatches ==
    {k \in 1..Len(batches) : StatusOf(batches[k]) \in {"Failed", "TimedOut"}}
\* ceil(n / b)
CeilDiv(n, b) == (n + b - 1) \div b

\* C6: every batch but the latest is Confirmed (batch k+1 exists only once
\* batch k was seen in a block with code 0, so at most one batch is
\* unconfirmed), and the states a batch went through are a prefix of
\* Built, Signed, Broadcast, then one of Confirmed, Failed, TimedOut.
C6_SequentialBatches ==
    /\ \A k \in 1..(Len(batches) - 1) : StatusOf(batches[k]) = "Confirmed"
    /\ Cardinality(BroadcastBatches \ ConfirmedBatches) <= 1
    /\ \A k \in 1..Len(batches) :
         LET h == batches[k].hist
         IN /\ Len(h) \in 1..4
            /\ h[1] = "Built"
            /\ Len(h) >= 2 => h[2] = "Signed"
            /\ Len(h) >= 3 => h[3] = "Broadcast"
            /\ Len(h) >= 4 => h[4] \in Terminal

\* the second batch is on the node, unconfirmed, behind a confirmed first
C6_Witness ==
    /\ Len(batches) = 2
    /\ batches[1].hist = <<"Built", "Signed", "Broadcast", "Confirmed">>
    /\ batches[2].hist = <<"Built", "Signed", "Broadcast">>
    /\ spc = "poll"

\* C7: the seed account is queried at most once per run; the k-th batch
\* (from 0) is signed with the ledger's sequence + k and the ledger's
\* account number; the local sequence equals the ledger's sequence plus
\* the number of confirmed batches; no two broadcasts share a sequence.
C7_SeedSequence ==
    /\ accQueries <= 1
    /\ \A k \in 1..Len(batches) :
         Len(batches[k].hist) >= 2 =>
            /\ batches[k].seq = chainSeedAcc.sequence + (k - 1)
            /\ batches[k].accountNumber = chainSeedAcc.number
    /\ spc \in {"loop", "built", "signed", "broadcast", "poll", "verify"} =>
         currentSeq = chainSeedAcc.sequence + Cardinality(ConfirmedBatches)
    /\ \A j, k \in BroadcastBatches :
         j # k => batches[j].seq # batches[k].seq

\* three batches were broadcast from a seed account that had sent before
C7_Witness ==
    /\ chainSeedAcc.sequence > 0
    /\ Cardinality(BroadcastBatches) = 3
    /\ batches[3].seq = chainSeedAcc.sequence + 2

\* C8: a batch that failed or timed out is the last batch of the run: the
\* run has returned an error (exit code 1), the sequence stands at the
\* failed batch's own sequence, and a run that has returned an error does
\* nothing further.
C8_State ==
    \A k \in FailedBatches :
        /\ k = Len(batches)
        /\ spc = "done"
        /\ result \in {"errBroadcast", "errRejected", "errOnChain",
                       "errTimeout"}
        /\ ExitCode = 1
        /\ currentSeq = batches[k].seq
C8_Step == (spc = "done" /\ result # "ok") => UNCHANGED seedVars
C8_AbortOnFailure == []C8_State /\ [][C8_Step]_vars

\* the first batch timed out with accounts left to fund
C8_Witness ==
    /\ Len(batches) = 1
    /\ StatusOf(batches[1]) = "TimedOut"
    /\ i + cfg.BatchSize < Len(needsFunding)
    /\ spc = "done"

\* C9: with a seed balance below perAccountAmount * workers + 10000 *
\* workers nothing is broadcast, the seed account info is not queried and
\* no account is classified; once the balance is known the run has
\* returned "insufficient funds".
C9_InsufficientFunds ==
    chainSeedBalance < cfg.FundAmount * cfg.Workers + 10000 * cfg.Workers =>
        /\ batches = <<>>
        /\ accQueries = 0
        /\ needsFunding = <<>> /\ idx = 0
        /\ seedBalance # NoBalance =>
              spc = "done" /\ result = "errInsufficientFunds"
        /\ spc = "done" =>
              result \in {"errInsufficientFunds", "errBalanceQuery"}
                           \cup IdentityErrors

\* the run returned "insufficient funds", one unit short
C9_Witness ==
    /\ result = "errInsufficientFunds"
    /\ seedBalance = cfg.FundAmount * cfg.Workers + 10000 * cfg.Workers - 1

\* sizes of the batches the loop of lines 388-393 cuts from n accounts
RECURSIVE LoopSizes(_, _, _)
LoopSizes(j, b, n) ==
    IF j >= n THEN <<>>
    ELSE <<BatchEnd(j, b, n) - j>> \o LoopSizes(j + b, b, n)

\* concatenation of the account lists of batches 1..k
RECURSIVE Funded(_)
Funded(k) == IF k = 0 THEN <<>> ELSE Funded(k - 1) \o batches[k].accounts

\* C10: needsFunding is in worker-index order; batch k holds the accounts
\* (k-1)*B+1 .. min(k*B, N) of it, so batches have size B except a smaller
\* last one and no account is in two batches; a batch holds one transfer
\* of the fund amount per account, gas limit 100000 * size and fee = gas
\* limit * minGasPrice; a run that funded everything built ceil(N/B)
\* batches covering every deficient account; 10 accounts in batches of 4
\* give sizes 4, 4, 2.
C10_BatchPlan ==
    LET n == Len(needsFunding)
        b == cfg.BatchSize
    IN /\ \A j, k \in 1..n : j < k => needsFunding[j] < needsFunding[k]
       /\ \A k \in 1..Len(batches) :
            LET bt == batches[k]
                lo == (k - 1) * b
                hi == IF k * b > n THEN n ELSE k * b
            IN /\ Len(bt.accounts) = hi - lo
               /\ Len(bt.accounts) >= 1
               /\ \A j \in 1..(hi - lo) : bt.accounts[j] = needsFunding[lo + j]
               /\ Len(bt.msgs) = Len(bt.accounts)
               /\ \A j \in 1..Len(bt.msgs) :
                     /\ bt.msgs[j].to = bt.accounts[j]
                     /\ bt.msgs[j].from = "seed"
                     /\ bt.msgs[j].amount = cfg.FundAmount
               /\ bt.gasLimit = 100000 * Len(bt.accounts)
               /\ bt.fee = bt.gasLimit * MinGasPrice
       /\ spc \in {"classify", "loop"} => Len(batches) * b = i \/ n = 0
       /\ (spc = "verify" \/ result \in {"ok", "errPartialFunding"}) =>
            /\ Len(batches) = CeilDiv(n, b)
            /\ ConfirmedBatches = 1..Len(batches)
            /\ Funded(Len(batches)) = needsFunding
       /\ LoopSizes(0, 4, 10) = <<4, 4, 2>>

\* a run funded three accounts in batches of two: sizes 2 and 1
C10_Witness ==
    /\ result = "ok"
    /\ cfg.BatchSize = 2
    /\ Len(needsFunding) = 3
    /\ Len(batches) = 2
    /\ Len(batches[1].accounts) = 2
    /\ Len(batches[2].accounts) = 1

\* ------------------------------ properties, seeder runs and identity
\* the worker accounts of needsFunding
Deficient == {needsFunding[k] : k \in 1..Len(needsFunding)}
\* the recipients of the messages of batch k
RecipientsOf(k) == {batches[k].msgs[j].to : j \in 1..Len(batches[k].msgs)}
\* the recipients of all funding messages built in this run
Recipients == UNION {RecipientsOf(k) : k \in 1..Len(batches)}
\* the accounts of the batches confirmed in this run
Credited ==
    UNION {{batches[k].accounts[j] : j \in 1..Len(batches[k].accounts)} :
           k \in ConfirmedBatches}
\* the workers the classification loop has gone through, while no balance
\* has been changed by this run
ClassifiedUntouched ==
    IF spc = "classify" THEN 0..(idx - 1)
    ELSE IF spc \in {"loop", "built", "signed", "broadcast", "poll"}
            /\ ConfirmedBatches = {}
      THEN WorkerIdx(cfg)
      ELSE {}

\* C11 as stated: the run that follows a successful one broadcasts nothing.
C11_NoSecondBroadcast ==
    run = "second" => BroadcastBatches = {}

\* C11, amended: in the run that follows a successful one, only accounts
\* whose balance query failed in that run are classified or funded; when
\* every balance query answers, nothing is built or broadcast and the run
\* returns nil after the classification.
C11_SecondRunFundsOnlyFailedQueries ==
    run = "second" =>
        /\ Deficient \subseteq failedQ
        /\ Recipients \subseteq failedQ
        /\ failedQ = {} =>
              /\ batches = <<>>
              /\ spc \notin {"loop", "verify"}
              /\ spc = "done" =>
                    result \in {"ok", "errBalanceQuery",
                                "errInsufficientFunds", "errAccountQuery"}

\* the second run found every account funded, after a first run that had
\* confirmed transactions
C11_Witness ==
    /\ run = "second"
    /\ chainSeedAcc.sequence \notin {0, MaxSeedSeq}
    /\ accQueries = 1
    /\ failedQ = {}
    /\ spc = "done"
    /\ result = "ok"

\* C12: a classified account is in needsFunding exactly when its balance
\* query failed or its balance is below the fund amount; an account whose
\* query answered with a balance at or above the fund amount is never the
\* recipient of a funding message.
C12_Classification ==
    /\ \A a \in ClassifiedUntouched :
          a \in Deficient <=> (a \in failedQ \/ chainBal[a] < cfg.FundAmount)
    /\ Recipients \subseteq Deficient
    /\ \A a \in WorkerIdx(cfg) :
          (a \notin failedQ /\ a \notin Credited
             /\ chainBal[a] >= cfg.FundAmount) => a \notin Recipients

\* three workers, one of each kind: funded and answered (left out), funded
\* but unanswered (funded again), below the fund amount; a transaction for
\* the two is at the node
C12_Witness ==
    /\ spc = "broadcast"
    /\ ConfirmedBatches = {}
    /\ \E a, b, c \in WorkerIdx(cfg) :
          /\ a \notin failedQ /\ chainBal[a] >= cfg.FundAmount
          /\ a \notin Recipients
          /\ b \in failedQ /\ chainBal[b] >= cfg.FundAmount
          /\ b \in Recipients
          /\ c \notin failedQ /\ chainBal[c] < cfg.FundAmount
          /\ c \in Recipients

\* C13: the poll loop is left in one of three ways only: the transaction
\* was seen in a block with code 0 before the deadline (Confirmed, the run
\* goes on), it was seen in a block with a non-zero code (Failed, the run
\* returns the on-chain error), or the deadline passed (TimedOut, the run
\* returns the timeout error); until then the batch stays Broadcast.
C13_State ==
    spc = "poll" => StatusOf(batches[Cur]) = "Broadcast"
C13_Step ==
    spc = "poll" =>
        /\ Len(batches') = Len(batches)
        /\ \/ /\ spc' = "poll"
              /\ batches' = batches
           \/ /\ StatusOf(batches'[Cur]) = "Confirmed"
              /\ elapsed < MaxWaitMs
              /\ spc' \in {"loop", "verify"}
              /\ result' = "none"
           \/ /\ StatusOf(batches'[Cur]) = "Failed"
              /\ spc' = "done"
              /\ result' = "errOnChain"
           \/ /\ StatusOf(batches'[Cur]) = "TimedOut"
              /\ elapsed >= MaxWaitMs
              /\ spc' = "done"
              /\ result' = "errTimeout"
C13_PollOutcomes == []C13_State /\ [][C13_Step]_vars

\* the transaction was seen in a block with a non-zero code after polls
\* that had not found it
C13_Witness ==
    /\ Len(batches) = 1
    /\ StatusOf(batches[1]) = "Failed"
    /\ result = "errOnChain"
    /\ elapsed > 0

\* most checks a poll loop can make: the deadline over the sleep
MaxPolls == MaxWaitMs \div PollSleepMs

\* C14: every poll loop ends, provided each status request returns: a poll
\* that goes on has advanced the clock by at least the sleep interval, the
\* clock never passes the deadline by more than one request and one sleep
\* (so at most MaxPolls checks are made), a loop whose deadline passed ends
\* in the timeout error and in nothing else, and the run does leave the
\* loop.
C14_State ==
    /\ spc = "poll" =>
          elapsed < MaxWaitMs + RestTimeoutMs + PollSleepMs
    /\ \A k \in 1..Len(batches) :
          StatusOf(batches[k]) = "TimedOut" =>
              k = Len(batches) /\ spc = "done" /\ result = "errTimeout"
C14_Step ==
    /\ (spc = "poll" /\ spc' = "poll") => elapsed' >= elapsed + PollSleepMs
    /\ (spc = "poll" /\ elapsed >= MaxWaitMs) =>
           spc' = "done" /\ result' = "errTimeout"
C14_PollTerminates ==
    /\ []C14_State
    /\ [][C14_Step]_vars
    /\ (spc = "poll") ~> (spc # "poll")

\* the timeout was reported after MaxPolls checks that were answered at
\* once
C14_Witness ==
    /\ Len(batches) = 1
    /\ StatusOf(batches[1]) = "TimedOut"
    /\ result = "errTimeout"
    /\ elapsed = MaxPolls * PollSleepMs

\* C15: the verification is reached only with every batch confirmed and
\* re-queries every account of needsFunding; a re-queried balance below
\* the fund amount clears allFunded for good; the run returns the
\* partial-funding error (exit code 1) when the flag is cleared and nil
\* (exit code 0) only with every account of needsFunding re-queried and at
\* or above the fund amount.
C15_State ==
    /\ (spc = "verify" \/ result \in {"ok", "errPartialFunding"}) =>
          ConfirmedBatches = 1..Len(batches)
    /\ result = "errPartialFunding" =>
          /\ ExitCode = 1
          /\ ~allFunded
          /\ idx = Len(needsFunding)
    /\ (result = "ok" /\ needsFunding # <<>>) =>
          /\ ExitCode = 0
          /\ allFunded
          /\ idx = Len(needsFunding)
          /\ \A a \in Deficient : chainBal[a] >= cfg.FundAmount
C15_Step ==
    spc = "verify" =>
        /\ idx' = idx + 1
        /\ chainBal'[needsFunding[idx']] < cfg.FundAmount => ~allFunded'
        /\ ~allFunded => ~allFunded'
        /\ spc' = "done" =>
              /\ idx' = Len(needsFunding)
              /\ result' = IF allFunded' THEN "ok" ELSE "errPartialFunding"
C15_Verification == []C15_State /\ [][C15_Step]_vars

\* the first of two funded accounts was found below the fund amount, the
\* second was not, and the run reported the partial funding
C15_Witness ==
    /\ result = "errPartialFunding"
    /\ Len(needsFunding) = 2
    /\ chainBal[needsFunding[1]] < cfg.FundAmount
    /\ chainBal[needsFunding[2]] >= cfg.FundAmount

\* C16: with a private key supplied the address comes from that key or the
\* run returns a key error, whatever the seed key is; the address comes
\* from a mnemonic, or the run returns a mnemonic error, only with no
\* private key supplied.
C16_PrivateKeyPrecedence ==
    spc # "identity" =>
        /\ cfg.SeedPrivateKey # EmptyString =>
              /\ seedAddr[1] # "hd118"
              /\ result \notin {"errDerive", "errNotMnemonic"}
              /\ seedAddr = NoAddr =>
                    result \in {"errKeyDecode", "errKeyLength"}
              /\ seedAddr # NoAddr =>
                    seedAddr = <<"secp256k1", cfg.SeedPrivateKey.text>>
        /\ cfg.SeedPrivateKey = EmptyString =>
              /\ seedAddr[1] # "secp256k1"
              /\ result \notin {"errKeyDecode", "errKeyLength"}
        /\ \A k \in SeedKeyInputs :
              cfg.SeedPrivateKey # EmptyString =>
                  SeedIdentity([cfg EXCEPT !.SeedKey = k]).addr = seedAddr

\* a run with a private key and a seed key that is a mnemonic of another
\* account funded its workers from the private key's address
C16_Witness ==
    /\ cfg.SeedPrivateKey # EmptyString
    /\ cfg.SeedKey.derivable
    /\ seedAddr = <<"secp256k1", cfg.SeedPrivateKey.text>>
    /\ ConfirmedBatches # {}
    /\ result = "ok"

\* the private key is hex of PrivKeyLen bytes, with or without "0x"
KeyUsable(k) == k.hex /\ k.nbytes = PrivKeyLen
\* the seed key is "alice" or a mnemonic a key can be derived from
SeedKeyUsable(k) == k.text = "alice" \/ (k.spaces /\ k.derivable)
\* the configuration names no usable identity
NoUsableIdentity ==
    IF cfg.SeedPrivateKey # EmptyString
      THEN ~KeyUsable(cfg.SeedPrivateKey)
      ELSE ~SeedKeyUsable(cfg.SeedKey)

\* C17: with no usable identity the run returns an identity error (exit
\* code 1) as its first step: no balance or account query was made and
\* nothing was built or broadcast; an identity error is returned from the
\* start of the run only.
C17_State ==
    /\ (NoUsableIdentity /\ spc # "identity") =>
          /\ spc = "done"
          /\ result \in IdentityErrors
          /\ ExitCode = 1
    /\ result \in IdentityErrors =>
          /\ NoUsableIdentity
          /\ seedAddr = NoAddr
          /\ seedBalance = NoBalance
          /\ accQueries = 0
          /\ failedQ = {} /\ needsFunding = <<>> /\ idx = 0
          /\ batches = <<>>
C17_Step ==
    (result' \in IdentityErrors /\ result \notin IdentityErrors) =>
        spc = "identity"
C17_NoIdentityNoQuery == []C17_State /\ [][C17_Step]_vars

\* no private key and a seed key with spaces that is no mnemonic: the run
\* returned the derivation error
C17_Witness ==
    /\ cfg.SeedPrivateKey = EmptyString
    /\ cfg.SeedKey.spaces
    /\ result = "errDerive"
    /\ spc = "done"

\* the NewClient calls that have their worker id
Assigned == {g \in FactoryCalls : fid[g] # NoSeq}
\* the NewClient calls that returned a client
Constructed == {g \in FactoryCalls : fret[g] = "ok"}
\* the arguments are what NewBankSendStrategy refuses
BadStrategyArgs(chainID, denom, sinkAddr) ==
    \/ chainID = ""
    \/ denom = ""
    \/ sinkAddr.text = ""
    \/ ~sinkAddr.bech32

\* C18: NewBankSendStrategy returns a configuration error exactly for an
\* empty chain id, an empty denom, or an empty or malformed sink address,
\* and NewClient returns that error; a strategy that was returned holds a
\* chain id, a denom and a well-formed sink address, so the message a
\* constructed client asks of it is built for that sink and denom and is
\* never one of the configuration errors.
C18_ValidatedAtConstruction ==
    /\ sres.err # "pending" =>
          /\ sres.err \in ConfigErrors <=>
                BadStrategyArgs(sargs.chainID, sargs.denom, sargs.sinkAddr)
          /\ sres.err = "none" <=>
                ~BadStrategyArgs(sargs.chainID, sargs.denom, sargs.sinkAddr)
          /\ sres.err = "none" =>
                sres.strategy = [chainID |-> sargs.chainID,
                                 denom |-> sargs.denom,
                                 sinkAddr |-> sargs.sinkAddr]
    /\ \A g \in FactoryCalls :
          /\ fret[g] \in ConfigErrors \cup {"none", "ok"}
          /\ fret[g] \in ConfigErrors =>
                fclient[g] = NoClient /\ fmsg[g].err = "pending"
          /\ fret[g] = "ok" =>
                LET s == fclient[g].strategy
                IN /\ ~BadStrategyArgs(s.chainID, s.denom, s.sinkAddr)
                   /\ fmsg[g].err \notin ConfigErrors
                   /\ fmsg[g].err # "pending" =>
                         /\ fmsg[g].err = "none"
                         /\ fmsg[g].msg.to = s.sinkAddr
                         /\ fmsg[g].msg.denom = s.denom

\* a direct call was refused for its malformed sink address, and a client
\* built from an environment that sets chain id, denom and sink address
\* got its message
C18_Witness ==
    /\ sres.err = "errSinkInvalid"
    /\ env.chainID # ""
    /\ \E g \in FactoryCalls :
          /\ fret[g] = "ok"
          /\ fmsg[g].err = "none"
          /\ fmsg[g].msg.to = env.sinkAddr

\* C19: the worker ids handed out by one factory, in any interleaving of
\* its NewClient calls, are pairwise different and are exactly
\* 0 .. workerCounter-1; each new id is the counter's value before the
\* call, so it is larger than every id handed out before.
C19_State ==
    /\ \A g, h \in Assigned : g # h => fid[g] # fid[h]
    /\ {fid[g] : g \in Assigned} = 0..(workerCounter - 1)
    /\ Cardinality(Assigned) = workerCounter
    /\ \A g \in Constructed : fclient[g].workerID = fid[g]
    /\ \A g, h \in Constructed :
          g # h => fclient[g].workerID # fclient[h].workerID
C19_Step ==
    \A g \in FactoryCalls :
        (fid[g] = NoSeq /\ fid'[g] # NoSeq) =>
            /\ fid'[g] = workerCounter
            /\ workerCounter' = workerCounter + 1
            /\ \A h \in Assigned : fid[h] < fid'[g]
            /\ \A h \in FactoryCalls \ {g} : fid'[h] = fid[h]
C19_UniqueWorkerIDs == []C19_State /\ [][C19_Step]_vars

\* all calls hold their id before any of them has built its client, and
\* the call that started last in the numbering got the first id
C19_Witness ==
    /\ NumFactoryCalls >= 3
    /\ \A g \in FactoryCalls : fpc[g] = "construct"
    /\ fid[NumFactoryCalls] = 0

\* C20: the address of a worker is a function of its index alone, and the
\* client with worker id j is built with, and sends from, the address the
\* seeder funds for index j; two indices that give one address to the
\* client give one address to the seeder.
C20_SameDerivation ==
    /\ \A g \in Constructed :
          /\ fclient[g].addr = BenchAddr(fclient[g].workerID)
          /\ fmsg[g].err = "none" =>
                fmsg[g].msg.from = AddrString(BenchAddr(fclient[g].workerID))
    /\ \A g, h \in Constructed :
          fclient[g].workerID = fclient[h].workerID <=>
              fclient[g].addr = fclient[h].addr
    /\ \A j \in 0..NumFactoryCalls : \A k \in {j, j + 1, j + ByteValues} :
          (ClientAddr(j) = ClientAddr(k)) <=> (BenchAddr(j) = BenchAddr(k))

\* every call returned a client and the one with the largest id has sent
\* from the address the seeder funds for that index
C20_Witness ==
    /\ Constructed = FactoryCalls
    /\ \E g \in FactoryCalls :
          /\ fclient[g].workerID = NumFactoryCalls - 1
          /\ fmsg[g].err = "none"
          /\ fmsg[g].msg.from = AddrString(BenchAddr(NumFactoryCalls - 1))

\* ------------------------------------ properties, generator (frame)
\* generator w was resolved by this step
ResolvedNow(w) == ~accountQueried[w] /\ accountQueried'[w]
\* the calls of generator w that returned
Returned(w) == {c \in CallsOf(w) : gpc[w][c] = "done"}

\* C22: a GenerateTx call changes nothing but the local sequence counter,
\* which it advances by one, and, in the step that resolves the account,
\* the account number, the sequence and the resolved flag; the ledger is
\* never written (nothing is broadcast) and config, strategy, key,
\* address and REST URL of every generator stay what the constructor
\* made them
C22_Step ==
    /\ gclient' = gclient
    /\ ledgerAcc' = ledgerAcc
    /\ \A w \in GenWorkers :
         /\ accountNum'[w] # accountNum[w] => ResolvedNow(w)
         /\ accountQueried'[w] # accountQueried[w] => ResolvedNow(w)
         /\ sequence'[w] # sequence[w] =>
              \/ ResolvedNow(w)
              \/ sequence'[w] = sequence[w] + 1
C22_FrameOfGenerateTx == [][C22_Step]_vars
\* a call returned a transaction and another reserved after it
C22_Witness ==
    /\ \E c \in CallsOf(1) : gret[1][c] = "ok"
    /\ \E c \in CallsOf(1) : gpc[1][c] = "build"
    /\ gclient[1] = NewPerpxBankClient(1)

\* C23: a step of a GenerateTx call on one worker, successful or failing,
\* leaves the sequence counter, the account number, the resolved flag and
\* the mutex of every other worker's generator unchanged
C23_Step ==
    \A b \in GenWorkers :
        gpc'[b] = gpc[b] =>
            /\ sequence'[b] = sequence[b]
            /\ accountNum'[b] = accountNum[b]
            /\ accountQueried'[b] = accountQueried[b]
            /\ accountQueryMtx'[b] = accountQueryMtx[b]
C23_WorkersIndependent == [][C23_Step]_vars
\* calls failed and succeeded on the first worker while the second
\* worker's generator is still untouched, and the other way round
C23_Witness ==
    /\ \E c \in CallsOf(1) : gret[1][c] = "ok"
    /\ \E c \in CallsOf(1) : gret[1][c] \notin {"ok", "none"}
    /\ ~accountQueried[2]
    /\ sequence[2] = 0

\* C24: a returned transaction carries the reserved sequence value in its
\* placeholder signature, its signer data and its final signature, and
\* its signer data carries the account number the resolution read from
\* the ledger and the chain id of the strategy; it is signed only on a
\* resolved generator, with a sequence not below the resolved one
C24_SignedWithReserved ==
    \A w \in GenWorkers : \A c \in CallsOf(w) :
        gret[w][c] = "ok" =>
            /\ gseq[w][c] # NoSeq
            /\ gtx[w][c].placeholderSeq = gseq[w][c]
            /\ gtx[w][c].signerSeq = gseq[w][c]
            /\ gtx[w][c].sigSeq = gseq[w][c]
            /\ accountQueried[w]
            /\ gtx[w][c].accountNumber = ledgerAcc[w].number
            /\ gtx[w][c].accountNumber # 0
            /\ gtx[w][c].signerSeq >= ledgerAcc[w].sequence
            /\ gtx[w][c].chainID = gclient[w].strategy.chainID
            /\ gtx[w][c].chainID = DefaultChainID
            /\ gtx[w][c].address = ClientAddr(w - 1)
\* two concurrent calls returned transactions with different sequences
C24_Witness ==
    \E c, d \in CallsOf(1) :
        /\ c # d
        /\ gret[1][c] = "ok" /\ gret[1][d] = "ok"
        /\ gtx[1][c].signerSeq = MaxLedgerSeq
        /\ gtx[1][d].signerSeq = MaxLedgerSeq + 1

\* ------------------------------------- properties, account derivation
\* C21: the addresses derived for two different worker indices differ,
\* in the client and in the seeder, given that neither digest nor the
\* address of a key collides
C21_DistinctAddresses ==
    /\ caddr # NoAddrs => caddr[1] # caddr[2]
    /\ baddr # NoAddrs => baddr[1] # baddr[2]
\* both sides derived the accounts of two indices with the same byte(id)
C21_Witness ==
    /\ caddr # NoAddrs
    /\ baddr # NoAddrs
    /\ dpair[2] = dpair[1] + ByteValues
    /\ Len(Decimal(dpair[1])) < Len(Decimal(dpair[2]))

\* -------------------------------------- properties, REST base URLs
\* the node the two URLs were made from
NodeOf(r) == CHOOSE n \in Nodes : RpcUrlOf(n) = r
\* the REST base URL the mapping of the ports gives for a node
MappedRestURL(n) ==
    LET scheme == IF n.tls THEN HttpsScheme ELSE HttpScheme
    IN IF n.port = PerpxRpcPort
         THEN scheme \o n.host \o PortText(PerpxRestPort)
       ELSE IF n.port = StdRpcPort
         THEN scheme \o n.host \o PortText(StdRestPort)
       ELSE DefaultRestURL

\* C30: for one node, the client and the seeder derive the same REST base
\* URL: port 36657 becomes 31317, port 26657 becomes 1317, anything else
\* gives http://localhost:31317
C30_SameRestURL ==
    (clientRest # NoUrl /\ seedRest # NoUrl) =>
        /\ clientRest = seedRest
        /\ seedRest = MappedRestURL(NodeOf(rpc))

\* ------------------------- properties, ExecuteStandalone and display
\* C25: when ExecuteStandalone has returned after the display was
\* started, the render goroutine has exited, the cursor is shown and the
\* last thing written to the terminal is the clearing of the screen,
\* whether the run completed, the load test failed, the statistics could
\* not be written or an interrupt cancelled the group
C25_TerminalRestored ==
    (mpc = "returned" /\ tuiOn) =>
        /\ tpc = "exited"
        /\ ~cursorHidden
        /\ screen = "cleared"
\* ExecuteStandalone returned after a trapped interrupt cancelled the
\* load test under the display
C25_Witness ==
    /\ mpc = "returned"
    /\ tuiOn
    /\ tgState = "cancelled"
    /\ trap = "cancelled"

\* C26: the render goroutine never holds tg.statsMtx exclusively, holds
\* it shared only while it copies the counters, and has released it when
\* it computes the rates and writes the table
C26_State ==
    /\ RenderGoroutine \notin statsMtx.writers
    /\ RenderGoroutine \in statsMtx.readers <=> tpc = "locked"
    /\ statsMtx.writers # {} => statsMtx.readers = {}
C26_Step ==
    (shown' # shown \/ screen' # screen) =>
        /\ RenderGoroutine \notin statsMtx.readers
        /\ RenderGoroutine \notin statsMtx'.readers
C26_SnapshotUnderReadLock == []C26_State /\ [][C26_Step]_vars
\* a transactor holds the exclusive lock while the table is being drawn
C26_Witness ==
    /\ tpc = "draw"
    /\ statsMtx.writers # {}
    /\ byEP # EmptyMap

\* the count of endpoint ep in the snapshot snap, 0 when it has none
CountIn(snap, ep) == IF ep \in DOMAIN snap THEN snap[ep] ELSE 0

\* C27: the rate written for an endpoint is its count in the snapshot of
\* this tick minus its count in the snapshot of the tick before (0 when
\* it had none), over the elapsed seconds; the stored previous snapshot
\* is the one of the tick before while the table is drawn and is
\* replaced by the current one after it
C27_State ==
    /\ tpc \in {"draw", "update"} => lastByEP = prevSnap
    /\ tpc = "update" =>
         /\ DOMAIN shown = DOMAIN byEP
         /\ \A ep \in DOMAIN byEP :
              /\ shown[ep].delta = byEP[ep] - CountIn(prevSnap, ep)
              /\ shown[ep].dt = dt
              /\ dt >= 1
C27_Step ==
    (tpc = "update" /\ tpc' # "update") => lastByEP' = byEP
C27_RateFromDelta == []C27_State /\ [][C27_Step]_vars
\* a table shows an endpoint seen for the first time beside one whose
\* count has grown since the tick before
C27_Witness ==
    /\ tpc = "update"
    /\ \E ep \in DOMAIN byEP :
         ep \notin DOMAIN prevSnap /\ shown[ep].delta > 0
    /\ \E ep \in DOMAIN byEP :
         /\ ep \in DOMAIN prevSnap
         /\ prevSnap[ep] > 0
         /\ shown[ep].delta > 0
         /\ shown[ep].dt = MaxDt

\* C29: in TUI mode every error message of ExecuteStandalone is written
\* to the terminal after the render goroutine has exited
C29_ErrorsAfterStop ==
    \A e \in printed : e.tuiStopped

\* ------------------------------- properties, interrupt of the seed run
\* C28: after a stop signal is raised during seeding no batch is built
\* or broadcast any more, and a network call that was in flight when the
\* signal came is not cut off
C28_NoBatchAfterSignal ==
    stopSig.raised =>
        /\ Len(batches) = stopSig.batches
        /\ ~stopSig.inFlight

\* ------------------------------------- properties, the benchmark run
\* C31: in a run of the benchmark script with c connections per endpoint
\* and e endpoints, every worker id the factory assigned is below c * e
\* and the account of every client is one the seeder was asked to fund
C31_WorkersSeeded ==
    \A cl \in bclients :
        /\ cl.workerID >= 0
        /\ cl.workerID < bconn * bendp
        /\ cl.addr \in bseeded
\* the load test has started with the largest number of transactors
C31_Witness ==
    /\ bpc = "started"
    /\ bconn = MaxConnections
    /\ bendp = MaxEndpoints
    /\ Cardinality(bclients) = MaxConnections * MaxEndpoints

\* ------------------------------ properties, worker ids of the factory
\* the calls that returned a client
Succeeded == {g \in FactoryCalls : fpc[g] = "done" /\ fret[g] = "ok"}
\* the calls the strategy rejected
Rejected == {g \in FactoryCalls : fpc[g] = "done" /\ fret[g] # "ok"}
\* no call is between its entry and its return
NoCallRunning == \A g \in FactoryCalls : fpc[g] \in {"idle", "done"}

\* C32: a NewClient call the strategy rejects takes no worker id: once
\* the calls made so far have returned, the ids of the clients they
\* created are exactly 0..n-1 for n successful calls
C32_NoGaps ==
    NoCallRunning =>
        /\ {fclient[g].workerID : g \in Succeeded}
               = 0..(Cardinality(Succeeded) - 1)
        /\ workerCounter = Cardinality(Succeeded)
\* every call has returned, one was rejected and the others were not
C32_Witness ==
    /\ NoCallRunning
    /\ Cardinality(Rejected) = 1
    /\ Cardinality(Succeeded) = NumFactoryCalls - 1
    /\ \E g \in Rejected, h \in Succeeded : fclient[h].workerID > 0

\* --------------------------- properties, generator (lock and retry)
\* the mutex of generator w is held by a call that is inside
\* ensureAccountQueried, waiting for the answer of the account query
HeldByRunningCall(w) ==
    accountQueryMtx[w] # Free =>
        /\ accountQueryMtx[w] \in CallsOf(w)
        /\ gpc[w][accountQueryMtx[w]] = "query"
\* a call that returns the error of a failed resolution leaves the
\* generator unresolved and its mutex free
C33_FailStep ==
    \A w \in GenWorkers : \A c \in CallsOf(w) :
        (gpc[w][c] = "query" /\ gpc'[w][c] = "done") =>
            /\ ~accountQueried'[w]
            /\ accountQueryMtx'[w] = Free
\* a call made on an unresolved generator whose mutex is free can go on
\* to query the ledger again
C33_RetryEnabled ==
    \A w \in GenWorkers : \A c \in CallsOf(w) :
        (gpc[w][c] = "idle" /\ ~accountQueried[w]
            /\ accountQueryMtx[w] = Free) => ENABLED QuerySend(w, c)

\* C33: resolution never leaves a generator stuck: the mutex is held
\* only by a call inside ensureAccountQueried and is free after every
\* return, a failed resolution leaves the generator unresolved, a later
\* call queries the ledger again, and every call that is made returns
C33_NeverStuck ==
    /\ [](\A w \in GenWorkers : HeldByRunningCall(w))
    /\ [][C33_FailStep]_vars
    /\ []C33_RetryEnabled
    /\ \A c \in Calls : <>(gpc[1][c] = "done")
\* a resolution failed while other calls waited, a later call queried the
\* ledger again and returned a transaction
C33_Witness ==
    \E c, d \in CallsOf(1) :
        /\ gret[1][c] = "errAccountNotFound"
        /\ gret[1][d] = "ok"
        /\ queries[1] >= 2
        /\ \A k \in CallsOf(1) : gpc[1][k] = "done"

\* ----------------------------------- properties, the batch loop
\* an iteration of the batch loop has begun
C34_IterationBegins == spc = "loop" /\ spc' # "loop"

\* C34: for every batch size parseArgs can produce, the batch loop comes
\* to its end: each iteration moves the loop index forward, past a batch
\* that is not empty, no iteration ends in a runtime panic, and a run
\* with N deficient accounts and batch size B hands fewer than N / B + 1
\* batches, that is at most ceil(N / B), to BroadcastTx
C34_BatchLoopTerminates ==
    /\ [][C34_IterationBegins => i + cfg.BatchSize > i]_vars
    /\ [](\A k \in 1..Len(batches) : Len(batches[k].accounts) > 0)
    /\ [](result \notin Panics)
    /\ [](Cardinality(BroadcastBatches) * cfg.BatchSize
            < Len(needsFunding) + cfg.BatchSize
          \/ Cardinality(BroadcastBatches) = 0)

\* ----------------------------------- properties, the fee reserve
\* the fees of the first k batches the run has built, in units of Giga
\* aperpx
RECURSIVE FeesOfBatches(_)
FeesOfBatches(k) ==
    IF k = 0 THEN 0 ELSE batches[k].fee + FeesOfBatches(k - 1)
\* the accounts the first k batches fund
RECURSIVE AccountsOfBatches(_)
AccountsOfBatches(k) ==
    IF k = 0 THEN 0
    ELSE Len(batches[k].accounts) + AccountsOfBatches(k - 1)
\* the whole units of Giga aperpx in the fee reserve of the required
\* total (line 177)
FeeReserveUnits == (cfg.Workers * FeeReservePerWorker) \div Giga

\* C35: the fee reserve of the required total, 10000 per worker, is at
\* least the sum of the fees of the funding batches the run builds, so a
\* run that passed the funds check never needs more than the required
\* total
C35_ReserveCoversFees ==
    /\ FeeReserveUnits >= FeesOfBatches(Len(batches))
    /\ TotalRequired(cfg) \div Giga
          >= (AccountsOfBatches(Len(batches)) * cfg.FundAmount) \div Giga
               + FeesOfBatches(Len(batches))

\* ------------------------------ properties, failing status queries
\* the status query failed in transport, returned 404, returned another
\* status than 200, returned a body that does not decode, or returned
\* 200 without the height of a block
FailedStatusQuery(r) ==
    /\ r # NoResp
    /\ \/ r.err
       \/ r.status = StatusNotFound
       \/ r.status # StatusOK
       \/ ~r.decodes
       \/ r.height \in {"", "0"}
\* an iteration of the poll loop that handles such an answer leaves the
\* batch, the position of the run and its result as they are
C36_Step ==
    (spc = "poll" /\ elapsed < MaxWaitMs
        /\ FailedStatusQuery(txStatusResp')) =>
            /\ spc' = "poll"
            /\ batches' = batches
            /\ result' = result
\* a batch that ended behind such an answer ended in the timeout
C36_State ==
    (Len(batches) > 0 /\ StatusOf(batches[Cur]) \in Terminal
        /\ FailedStatusQuery(txStatusResp)) =>
            /\ StatusOf(batches[Cur]) = "TimedOut"
            /\ elapsed >= MaxWaitMs
            /\ result = "errTimeout"

\* C36: a status query that fails in transport, returns 404 or another
\* status than 200, returns a body that does not decode or returns 200
\* without the height of a block neither aborts the batch nor confirms
\* it: the poll loop goes on, and only the timeout ends such a batch
C36_FailedQueriesContinue == []C36_State /\ [][C36_Step]_vars
\* the batch timed out behind a status query answered with a status that
\* is neither 200 nor 404
C36_Witness ==
    /\ Len(batches) = 1
    /\ StatusOf(batches[1]) = "TimedOut"
    /\ ~txStatusResp.err
    /\ txStatusResp.status \notin {0, StatusOK, StatusNotFound}

\* ------------------------------ properties, the stop function
\* stopTUI() is running
InStop == mpc \in {"stop", "stopWait"}
\* stopc is closed by a call of stopTUI that found it open, and stays
\* closed
C37_CloseStep ==
    /\ stopc => stopc'
    /\ stopc' # stopc => (mpc = "stop" /\ mpc' = "stopWait")
\* when a call of stopTUI returns the render goroutine has exited
C37_ReturnStep ==
    (mpc = "stopWait" /\ mpc' # "stopWait") =>
        /\ stopc
        /\ tpc = "exited"
        /\ mpc' = stopRet
\* the render goroutine that has exited stays so and writes no table
C37_ExitedStep ==
    tpc = "exited" =>
        /\ tpc' = "exited"
        /\ screen' # screen => screen' \in {"cleared", "message"}

\* C37: stopTUI can be called again after it has returned: no call
\* panics, stopc is closed once, every call returns, and when a call
\* returns the render goroutine has exited and writes nothing more
C37_StopTwice ==
    /\ [](mpc # "panic")
    /\ [][C37_CloseStep /\ C37_ReturnStep /\ C37_ExitedStep]_vars
    /\ (InStop ~> ~InStop)
\* the deferred call of stopTUI has returned after the call on the error
\* path had stopped the display
C37_Witness ==
    /\ mpc = "returned"
    /\ tuiOn
    /\ tgState = "failed"
    /\ stopRet = "returned"
    /\ [msg |-> "loadtest", tuiStopped |-> TRUE] \in printed

\* ------------------------------ properties, the totals of the table
\* the endpoint groups the snapshot has put the counter of id under
GroupsOf(id) == {ep \in DOMAIN byEP : EndpointOf(id) = ep}
\* C38: in every snapshot each counter read under the lock is put under
\* one endpoint group, its transactor's or the unknown one when its id
\* is not in the transactor list, and the total written to the table is
\* the sum of the groups and the sum of the counters read
C38_State ==
    /\ tpc \in {"draw", "update"} =>
         /\ \A id \in DOMAIN readCounts :
              /\ Cardinality(GroupsOf(id)) = 1
              /\ UnknownEndpoint \in GroupsOf(id) <=> id \notin Transactors
         /\ \A ep \in DOMAIN byEP :
              byEP[ep] =
                  SumOver(readCounts,
                          {id \in DOMAIN readCounts : ep \in GroupsOf(id)})
         /\ SumOver(byEP, DOMAIN byEP) =
              SumOver(readCounts, DOMAIN readCounts)
    /\ tpc = "update" =>
         /\ totalTxs = SumOver(byEP, DOMAIN byEP)
         /\ totalTxs = SumOver(readCounts, DOMAIN readCounts)
C38_Step ==
    readCounts' # readCounts =>
        /\ RenderGoroutine \in statsMtx.readers
        /\ readCounts' = txCounts
C38_TotalsAgree == []C38_State /\ [][C38_Step]_vars
\* a table is written whose snapshot has two connections of one endpoint
\* and a counter under an id outside the transactor list, and a
\* transactor has reported since the snapshot before it
C38_Witness ==
    /\ tpc = "update"
    /\ \E a, b \in DOMAIN readCounts :
         a # b /\ a \in Transactors /\ GroupsOf(a) = GroupsOf(b)
    /\ \E id \in DOMAIN readCounts : id \notin Transactors
    /\ totalTxs > Cardinality(DOMAIN byEP)
    /\ prevSnap \notin {EmptyMap, byEP}

\* ------------------------------ properties, the configuration check
\* C39: ValidateConfig returns an error when connections <= 0, when time
\* <= 0 and count <= 0, or when there is no endpoint, and nil in every
\* other case; the call leaves the configuration and the worker counter
\* of the factory as they were
C39_State ==
    vret # "none" =>
        (vret # "nil" <=>
            \/ vcfg.Connections <= 0
            \/ (vcfg.Time <= 0 /\ vcfg.Count <= 0)
            \/ vcfg.Endpoints = 0)
C39_Step ==
    vret' # vret =>
        /\ vcfg' = vcfg
        /\ workerCounter' = workerCounter
        /\ fid' = fid
C39_ValidateConfig == []C39_State /\ [][C39_Step]_vars
\* a configuration with a count and no time was accepted by a factory
\* that has made a client
C39_Witness ==
    /\ vret = "nil"
    /\ vcfg.Time <= 0
    /\ vcfg.Count > 0
    /\ workerCounter > 0

====
